---------------------------- MODULE Spec2Model ----------------------------
(***************************************************************************)
(* Plannotator: the Viewer's anchor/restore engine                         *)
(* (src/legacy/utils/identity.ts, lines 244-740) and the useSharing hook   *)
(* (src/packages/ui/hooks/useSharing.ts).                                  *)
(*                                                                         *)
(* The document container is a DOM tree, kept as the sequence of its       *)
(* tokens in document order: a start tag, a text node, an end tag.  A      *)
(* text node carries its characters; adjacent text tokens are adjacent     *)
(* sibling text nodes.  Empty text nodes are not kept: no code of the      *)
(* Viewer can observe one (indexOf of a non-empty string fails on it, it   *)
(* adds nothing to textContent and no selector matches it).                *)
(***************************************************************************)
EXTENDS Integers, Sequences, FiniteSets, TLC

VARIABLES
    \* ---- Viewer (src/legacy/utils/identity.ts) ----
    dom,                \* containerRef.current: the token sequence of the <article>
    pendingSourceRef,   \* identity.ts:283
    toolbarState,       \* identity.ts:284 (the source; element is doms[0] of it)
    mode,               \* prop mode, identity.ts:276
    modeRef,            \* identity.ts:281
    hoveredCodeBlock,   \* identity.ts:285 (the block id, 0 = null)
    added,              \* the calls of onAddAnnotation, in order
    last,               \* the last call through the ViewerHandle and what it did
    nextId,             \* web-highlighter's supply of fresh source ids
    clock,              \* the last reading of Date.now()
    ops,                \* operations on the document so far
    \* ---- findTextInDOM as a function ----
    fLeaves, fSearch, fResult, fCalls,
    \* ---- useSharing (src/packages/ui/hooks/useSharing.ts) ----
    markdown,           \* the parent's markdown state (argument 1)
    annotations,        \* the parent's annotations state (argument 2)
    isSharedSession,    \* useSharing.ts:49
    isLoadingShared,    \* useSharing.ts:50
    shareUrl,           \* useSharing.ts:51
    shareUrlSize,       \* useSharing.ts:52
    pendingSharedAnnotations,   \* useSharing.ts:53
    hash,               \* window.location.hash
    loads,              \* the calls of loadFromHash that have not settled
    gens,               \* the calls of refreshShareUrl that have not settled
    loadLog,            \* the settled calls of loadFromHash with their results, in order
    sharedLoads,        \* the number of calls of onSharedLoad
    started,            \* the number of calls of loadFromHash
    edits,              \* the number of annotations the parent added
    \* ---- decision relay (exit-plan-mode.sh and identity.ts:82-218) ----
    rLaunch,            \* how the relay was started and with which plan
    rPc,                \* where the hook script and the server are
    rDecision,          \* decisionPromise, identity.ts:101-104
    rStdout,            \* what the server wrote to stdout
    rStderr,            \* what the server wrote to stderr
    rStatus,            \* the server's exit status
    rHookStatus,        \* the hook script's exit status
    rRequests,          \* the requests received, in order, each with whether its
                        \* handler still awaits req.json() (identity.ts:130)
    \* ---- identity (identity.ts:9-79) ----
    iMode,              \* how localStorage behaves
    iStored,            \* localStorage[STORAGE_KEY]
    iLog,               \* the calls made so far with what they returned
    \* ---- clipboard (ExportModal, src/unnamed/part_000; CodeBlock, identity.ts:797-845) ----
    cSharing,           \* prop sharingEnabled
    cOpen,              \* prop isOpen
    cTab,               \* activeTab, part_000:33
    cCopied,            \* copied of the ExportModal, part_000:34
    cCodeCopied,        \* copied of the CodeBlock, identity.ts:798
    cDiff,              \* prop diffOutput
    cWrites,            \* the calls of clipboard.writeText that have not settled
    cTimers,            \* the setTimeout callbacks that have not run
    cClipboard,         \* what the system clipboard holds
    cErrors,            \* the calls of console.error
    cCopies             \* clicks on a copy button so far

viewerVars == <<dom, pendingSourceRef, toolbarState, mode, modeRef,
                hoveredCodeBlock, added, last, nextId, clock, ops>>
findVars   == <<fLeaves, fSearch, fResult, fCalls>>
shareVars  == <<markdown, annotations, isSharedSession, isLoadingShared, shareUrl,
                shareUrlSize, pendingSharedAnnotations, hash, loads, gens, loadLog,
                sharedLoads, started, edits>>
relayVars  == <<rLaunch, rPc, rDecision, rStdout, rStderr, rStatus, rHookStatus, rRequests>>
identityVars == <<iMode, iStored, iLog>>
clipVars   == <<cSharing, cOpen, cTab, cCopied, cCodeCopied, cDiff, cWrites, cTimers, cClipboard,
                cErrors, cCopies>>
auxVars    == <<relayVars, identityVars, clipVars>>
vars       == <<viewerVars, findVars, shareVars, auxVars>>

-----------------------------------------------------------------------------
(* Bounds *)

MaxOps    == 3      \* operations on the Viewer's document per run (selections,
                    \* restores, removals, clears, code block annotations)
MaxText   == 4      \* characters of a findTextInDOM input document
MaxSearch == 2      \* characters of a findTextInDOM search text
MaxFind   == 2      \* findTextInDOM calls per input
MaxLoads  == 2      \* calls of loadFromHash per run (the one on mount included)
MaxEdits  == 1      \* annotations the parent adds to its annotations per run
MaxAnns   == 2      \* annotations of a set a link is generated from
MaxRequests == 3    \* requests the relay's server answers per run
MaxIdCalls == 3     \* calls into the identity system per run
MaxCopies == 3      \* clicks on a copy button per run

Chars == {"a", "b"}

-----------------------------------------------------------------------------
(* Strings (sequences of characters), 0-based as in JavaScript *)

\* s.slice(a, b)
Slice(s, a, b) == SubSeq(s, a + 1, b)

\* hay.indexOf(needle): the smallest index, -1 when there is none
IndexOf(hay, needle) ==
    LET hits == { i \in 0 .. (Len(hay) - Len(needle)) :
                    Slice(hay, i, i + Len(needle)) = needle }
    IN  IF hits = {} THEN -1
        ELSE CHOOSE i \in hits : \A j \in hits : i <= j

\* the number of occurrences of needle in hay
Occurrences(hay, needle) ==
    Cardinality({ i \in 0 .. (Len(hay) - Len(needle)) :
                    Slice(hay, i, i + Len(needle)) = needle })

-----------------------------------------------------------------------------
(* DOM tokens *)

TextNode(s) == [k |-> "text", s |-> s, tag |-> "", id |-> 0, cls |-> {}, orig |-> TRUE]
Elem(tag, id, cls, orig) ==
    [k |-> "open", s |-> <<>>, tag |-> tag, id |-> id, cls |-> cls, orig |-> orig]
EndTag == [k |-> "close", s |-> <<>>, tag |-> "", id |-> 0, cls |-> {}, orig |-> TRUE]

IsText(t) == t.k = "text"

\* TreeWalker(SHOW_TEXT): the indices of the text nodes, in document order
TextLeaves(toks) == { i \in 1 .. Len(toks) : IsText(toks[i]) }

RECURSIVE textContent(_)
\* Node.textContent: the concatenation of the text nodes in document order
textContent(toks) ==
    IF toks = <<>> THEN <<>>
    ELSE (IF IsText(Head(toks)) THEN Head(toks).s ELSE <<>>) \o textContent(Tail(toks))

\* the number of characters before token i
CharsBefore(toks, i) == Len(textContent(SubSeq(toks, 1, i - 1)))

-----------------------------------------------------------------------------
(* findTextInDOM, identity.ts:347-415.  A range is (startContainer,         *)
(* startOffset, endContainer, endOffset) with the containers given as       *)
(* token indices; found = FALSE is null.                                    *)

NoRange == [found |-> FALSE, sn |-> 0, so |-> 0, en |-> 0, eo |-> 0]
Range(sn, so, en, eo) == [found |-> TRUE, sn |-> sn, so |-> so, en |-> en, eo |-> eo]

\* identity.ts:356-366: the first text node that holds searchText whole
SingleLeafHit(toks, searchText) ==
    LET hits == { i \in TextLeaves(toks) : IndexOf(toks[i].s, searchText) # -1 }
    IN  IF hits = {} THEN 0 ELSE CHOOSE i \in hits : \A j \in hits : i <= j

\* a resolver without the walk over several text nodes
NoSlowPath(toks, searchText) == NoRange

\* identity.ts:384-405: the walk that accumulates charCount
MultiLeafRange(toks, searchText) ==
    LET fullText    == textContent(toks)
        searchIndex == IndexOf(fullText, searchText)
        endIndex    == searchIndex + Len(searchText)
        starts == { i \in TextLeaves(toks) :
                      CharsBefore(toks, i) + Len(toks[i].s) > searchIndex }
        startNode == CHOOSE i \in starts : \A j \in starts : i <= j
        ends == { i \in TextLeaves(toks) :
                      /\ i >= startNode
                      /\ CharsBefore(toks, i) + Len(toks[i].s) >= endIndex }
        endNode == CHOOSE i \in ends : \A j \in ends : i <= j
    IN  IF searchIndex = -1 THEN NoRange
        ELSE IF starts = {} \/ ends = {} THEN NoRange
        ELSE Range(startNode, searchIndex - CharsBefore(toks, startNode),
                   endNode, endIndex - CharsBefore(toks, endNode))

findTextInDOM(toks, searchText) ==
    LET hit == SingleLeafHit(toks, searchText)
    IN  IF hit # 0
        THEN LET index == IndexOf(toks[hit].s, searchText)
             IN  Range(hit, index, hit, index + Len(searchText))
        ELSE MultiLeafRange(toks, searchText)

\* Range.toString() for a range whose containers are text nodes
RangeText(toks, r) ==
    LET from == CharsBefore(toks, r.sn) + r.so
        to   == CharsBefore(toks, r.en) + r.eo
    IN  Slice(textContent(toks), from, to)

\* the index in the flattened text at which a range starts
RangeStart(toks, r) == CharsBefore(toks, r.sn) + r.so


-----------------------------------------------------------------------------
(* The tree: ancestors, matching end tags, subtrees *)

RECURSIVE OpenStack(_, _)
\* the start tags still open after the first n tokens, innermost first
OpenStack(toks, n) ==
    IF n = 0 THEN <<>>
    ELSE LET st == OpenStack(toks, n - 1)
             t  == toks[n]
         IN  IF t.k = "open" THEN <<n>> \o st
             ELSE IF t.k = "close" THEN Tail(st)
             ELSE st

\* parentElement chain of token i, innermost first (the container itself left out)
Ancestors(toks, i) == OpenStack(toks, i - 1)

RECURSIVE FindClose(_, _, _)
\* the first end tag from j on that closes more than the d start tags opened since
FindClose(toks, j, d) ==
    IF toks[j].k = "close"
    THEN IF d = 0 THEN j ELSE FindClose(toks, j + 1, d - 1)
    ELSE IF toks[j].k = "open" THEN FindClose(toks, j + 1, d + 1)
    ELSE FindClose(toks, j + 1, d)

\* the end tag that closes start tag i
EndOf(toks, i) == FindClose(toks, i + 1, 0)

\* the tokens between start tag i and its end tag
Children(toks, i) == SubSeq(toks, i + 1, EndOf(toks, i) - 1)

\* the elements of the tree (their start tags), in document order
Elements(toks) == { i \in 1 .. Len(toks) : toks[i].k = "open" }

Min(S) == CHOOSE x \in S : \A y \in S : x <= y
Max(S) == CHOOSE x \in S : \A y \in S : x >= y

\* a text node for s, none when s is empty
Piece(s) == IF s = <<>> THEN <<>> ELSE <<TextNode(s)>>

EndTags(n) == [i \in 1 .. n |-> EndTag]

-----------------------------------------------------------------------------
(* Range.surroundContents and the extractContents / insertNode fallback,   *)
(* identity.ts:494-501, on a range whose containers are text nodes.        *)

\* surroundContents throws when the range partially selects a non-Text node:
\* an element that holds one boundary and not the other
PartiallySelected(toks, r) ==
    LET ancS == Ancestors(toks, r.sn)
        ancE == Ancestors(toks, r.en)
        common == { x \in 1 .. Len(toks) :
                      (\E i \in 1 .. Len(ancS) : ancS[i] = x)
                      /\ (\E i \in 1 .. Len(ancE) : ancE[i] = x) }
    IN  [k |-> Len(ancS) - Cardinality(common),
         m |-> Len(ancE) - Cardinality(common)]

\* the tokens of the range's contents as extractContents leaves them in the
\* fragment: a partially selected element is cloned (cloneNode(false) keeps
\* its attributes), a contained one is moved
Extracted(toks, r) ==
    LET ps   == PartiallySelected(toks, r)
        ancS == Ancestors(toks, r.sn)
        ancE == Ancestors(toks, r.en)
        cloneOf(t) == [t EXCEPT !.orig = FALSE]
        clonesA == [i \in 1 .. ps.k |-> cloneOf(toks[ancS[ps.k + 1 - i]])]
        midAt(h) == IF \E i \in 1 .. ps.m : ancE[i] = h THEN cloneOf(toks[h]) ELSE toks[h]
        mid == [i \in 1 .. (r.en - r.sn - 1) |-> midAt(r.sn + i)]
    IN  IF r.sn = r.en
        THEN Piece(Slice(toks[r.sn].s, r.so, r.eo))
        ELSE clonesA
             \o Piece(Slice(toks[r.sn].s, r.so, Len(toks[r.sn].s)))
             \o mid
             \o Piece(Slice(toks[r.en].s, 0, r.eo))
             \o EndTags(ps.m)

\* what stays in the tree before and after the insertion point
LeftBehind(toks, r) ==
    LET ps == PartiallySelected(toks, r)
    IN  SubSeq(toks, 1, r.sn - 1) \o Piece(Slice(toks[r.sn].s, 0, r.so)) \o EndTags(ps.k)

RightBehind(toks, r) ==
    LET ps   == PartiallySelected(toks, r)
        ancE == Ancestors(toks, r.en)
        origB == [i \in 1 .. ps.m |-> toks[ancE[ps.m + 1 - i]]]
    IN  origB \o Piece(Slice(toks[r.en].s, r.eo, Len(toks[r.en].s)))
        \o SubSeq(toks, r.en + 1, Len(toks))
\* a fallback that takes the contents out and inserts the wrapper without them
\* (without identity.ts:499)
WrapEmptied(toks, r, wrapper) ==
    LeftBehind(toks, r) \o <<wrapper, EndTag>> \o RightBehind(toks, r)

\* identity.ts:494-501: surroundContents, or on its exception extract, append, insert.
\* Both paths put the wrapper at the range's start, around the range's contents.
WrapRange(toks, r, wrapper) ==
    LeftBehind(toks, r) \o <<wrapper>> \o Extracted(toks, r) \o <<EndTag>>
    \o RightBehind(toks, r)

-----------------------------------------------------------------------------
(* Unwrapping a mark *)

\* two adjacent text nodes at positions p, p+1 become one
MergeAt(toks, p) ==
    IF p >= 1 /\ p < Len(toks) /\ IsText(toks[p]) /\ IsText(toks[p + 1])
    THEN SubSeq(toks, 1, p - 1) \o <<TextNode(toks[p].s \o toks[p + 1].s)>>
         \o SubSeq(toks, p + 2, Len(toks))
    ELSE toks

\* an unwrap that removes the mark with what it holds
UnwrapDropsChildren(toks, i) ==
    SubSeq(toks, 1, i - 1) \o SubSeq(toks, EndOf(toks, i) + 1, Len(toks))

\* identity.ts:426-430 and 438-442: the children move before the mark, the mark goes
UnwrapManual(toks, i) ==
    LET j == EndOf(toks, i)
    IN  SubSeq(toks, 1, i - 1) \o SubSeq(toks, i + 1, j - 1) \o SubSeq(toks, j + 1, Len(toks))

\* web-highlighter's unwrap: as above, and the text nodes that meet at the two
\* seams are merged
UnwrapLibrary(toks, i) ==
    LET j == EndOf(toks, i)
        n == UnwrapManual(toks, i)
    IN  IF j = i + 1 THEN MergeAt(n, i - 1)
        ELSE MergeAt(MergeAt(n, j - 2), i - 1)


-----------------------------------------------------------------------------
(* The rendered document, identity.ts:670-704, 742-788 and 817-843 *)

\* props.blocks: a paragraph and a code block
Blocks == << [id |-> 1, type |-> "paragraph", content |-> <<"a", "b">>],
             [id |-> 2, type |-> "code",      content |-> <<"a", "b">>] >>

\* BlockRenderer (default case) and CodeBlock
RenderBlock(b) ==
    IF b.type = "code"
    THEN << Elem("block", b.id, {}, TRUE), Elem("pre", 0, {}, TRUE),
            Elem("code", 0, {"hljs"}, TRUE) >>
         \o Piece(b.content) \o << EndTag, EndTag, EndTag >>
    ELSE << Elem("block", b.id, {}, TRUE) >> \o Piece(b.content) \o << EndTag >>

RECURSIVE Render(_)
Render(bs) == IF bs = <<>> THEN <<>> ELSE RenderBlock(Head(bs)) \o Render(Tail(bs))

RECURSIVE Content(_)
\* the text the blocks were given
Content(bs) == IF bs = <<>> THEN <<>> ELSE Head(bs).content \o Content(Tail(bs))

-----------------------------------------------------------------------------
(* web-highlighter, as the Viewer uses it (identity.ts:517-522): marks with  *)
(* data-highlight-id and class annotation-highlight, one around each text   *)
(* node portion of the selection.                                           *)

HlClass   == "annotation-highlight"
IsHl(t)   == t.tag = "hl"
IsBind(t) == t.tag = "bind"

RECURSIVE HlWrap(_, _, _, _, _)
\* the highlight of the characters [s, e) of the flattened text, from position pos on
HlWrap(toks, pos, s, e, id) ==
    IF toks = <<>> THEN <<>>
    ELSE LET t == Head(toks)
             n == Len(t.s)
             a == IF s > pos THEN s - pos ELSE 0
             b == IF e - pos < n THEN e - pos ELSE n
         IN  IF IsText(t) /\ a < b
             THEN Piece(Slice(t.s, 0, a))
                  \o << Elem("hl", id, {HlClass}, TRUE), TextNode(Slice(t.s, a, b)), EndTag >>
                  \o Piece(Slice(t.s, b, n))
                  \o HlWrap(Tail(toks), pos + n, s, e, id)
             ELSE <<t>> \o HlWrap(Tail(toks), pos + n, s, e, id)

\* highlighter.getDoms(id): the marks of id, in document order
getDoms(toks, id) == { i \in Elements(toks) : IsHl(toks[i]) /\ toks[i].id = id }

RECURSIVE HlRemove(_, _)
\* highlighter.remove(id)
HlRemove(toks, id) ==
    IF getDoms(toks, id) = {} THEN toks
    ELSE HlRemove(UnwrapLibrary(toks, Min(getDoms(toks, id))), id)

\* highlighter.addClass(className, id)
HlAddClass(toks, className, id) ==
    [i \in 1 .. Len(toks) |->
        IF toks[i].k = "open" /\ IsHl(toks[i]) /\ toks[i].id = id
        THEN [toks[i] EXCEPT !.cls = @ \cup {className}]
        ELSE toks[i]]

\* the characters [s, e) hold no character that already lies in a highlighter mark
\* (selections that overlap an earlier web-highlighter mark are left out: the
\* library's bookkeeping of overlaps is not code of this repository)
Selectable(toks, s, e) ==
    \A i \in TextLeaves(toks) :
        LET from == CharsBefore(toks, i)
            to   == from + Len(toks[i].s)
        IN  (from < e /\ s < to) =>
                \A h \in 1 .. Len(Ancestors(toks, i)) : ~IsHl(toks[Ancestors(toks, i)[h]])

-----------------------------------------------------------------------------
(* Viewer state *)

NoSource == [id |-> 0, text |-> <<>>]
Source(id, text) == [id |-> id, text |-> text]

Undefined == "undefined"
Types     == {"DELETION", "COMMENT"}
Comments  == {"note"}
Modes     == {"selection", "redline"}
Me        == "self"          \* getIdentity()
\* a styling that shows every annotation as a deletion
DeletionClass(type) == {"deletion"}

\* the visual class of a type, identity.ts:337-341, 486-490, 633-637
TypeClass(type) ==
    IF type = "DELETION" THEN {"deletion"}
    ELSE IF type = "COMMENT" THEN {"comment"}
    ELSE {}

\* the ids of the highlighter marks in the tree
HlIds(toks)   == { toks[i].id : i \in { j \in Elements(toks) : IsHl(toks[j]) } }
\* the ids of the elements that carry data-bind-id
BindIds(toks) == { toks[i].id : i \in { j \in Elements(toks) : IsBind(toks[j]) } }
RECURSIVE AnnotationsEffect(_, _)
\* identity.ts:565-581, the effect on the annotations prop: the highlighter
\* marks of each annotation get the class of its type
AnnotationsEffect(toks, anns) ==
    IF anns = <<>> THEN toks
    ELSE LET ann == Head(anns)
             cls == TypeClass(ann.type)
         IN  AnnotationsEffect(
                 IF getDoms(toks, ann.id) # {} /\ cls # {}
                 THEN HlAddClass(toks, CHOOSE c \in cls : TRUE, ann.id)
                 ELSE toks,
                 Tail(anns))

\* identity.ts:299-344
createAnnotationFromSource(toks, source, type, text, via) ==
    LET doms == getDoms(toks, source.id)
        el   == Min(doms)
        anc  == Ancestors(toks, el)
        withBlock == { h \in 1 .. Len(anc) : toks[anc[h]].tag = "block" }
        parent    == anc[Min(withBlock)]
        blockText == textContent(Children(toks, parent))
        found     == doms # {} /\ withBlock # {}
        \* blockText.split(source.text)[0].length
        before    == IF IndexOf(blockText, source.text) = -1 THEN Len(blockText)
                     ELSE IndexOf(blockText, source.text)
        blockId     == IF found THEN toks[parent].id ELSE 0
        startOffset == IF found THEN before ELSE 0
    IN  [ dom |-> HlAddClass(toks, CHOOSE c \in TypeClass(type) : TRUE, source.id),
          ann |-> [ id |-> source.id, blockId |-> blockId,
                    startOffset |-> startOffset,
                    endOffset |-> startOffset + Len(source.text),
                    type |-> type, text |-> text, originalText |-> source.text,
                    author |-> Me, via |-> via ] ]

-----------------------------------------------------------------------------
(* The handlers.  Each yields the Viewer fields it writes. *)

\* a handler that keeps the marks of the previous pending highlight
KeepPending(toks, pending) == toks

\* identity.ts:531-535: the previous pending highlight goes
CleanupPending(toks, pending) ==
    IF pending # NoSource THEN HlRemove(toks, pending.id) ELSE toks

\* the mode the handler saw when it was registered (a closure over the first render)
ModeAtMount == "selection"

\* identity.ts:537, modeRef.current
ModeAtCreate == modeRef

\* identity.ts:526-548, the CREATE handler; toks already holds the new marks
CreateHandler(toks, source) ==
    IF getDoms(toks, source.id) # {}
    THEN LET cleaned == CleanupPending(toks, pendingSourceRef)
         IN  IF ModeAtCreate = "redline"
             THEN LET c == createAnnotationFromSource(cleaned, source, "DELETION",
                                                      Undefined, "redline")
                  IN  [dom |-> c.dom, pending |-> NoSource, toolbar |-> toolbarState,
                       added |-> Append(added, c.ann)]
             ELSE [dom |-> cleaned, pending |-> source, toolbar |-> source,
                   added |-> added]
    ELSE [dom |-> toks, pending |-> pendingSourceRef, toolbar |-> toolbarState,
          added |-> added]

\* the elements that carry data-bind-id = id
ManualMarks(toks, id) == { i \in Elements(toks) : IsBind(toks[i]) /\ toks[i].id = id }
\* a removal whose selector names no id: the first element with a
\* data-bind-id is unwrapped, whatever annotation it belongs to
RemoveFirstManual(toks, id) ==
    LET afterLib == HlRemove(toks, id)
        manual   == { i \in Elements(afterLib) : IsBind(afterLib[i]) }
    IN  IF manual # {} THEN UnwrapManual(afterLib, Min(manual)) ELSE afterLib

\* identity.ts:418-432
removeHighlight(toks, id) ==
    LET afterLib == HlRemove(toks, id)
        manual   == ManualMarks(afterLib, id)
    IN  IF manual # {} THEN UnwrapManual(afterLib, Min(manual)) ELSE afterLib

\* the two selectors of clearAllHighlights
Selects(selector, t) ==
    IF selector = "[data-bind-id]" THEN IsBind(t)
    ELSE IF selector = ".annotation-highlight" THEN HlClass \in t.cls
    ELSE FALSE

RECURSIVE UnwrapAll(_, _)
\* forEach over a querySelectorAll list: every listed element is unwrapped
UnwrapAll(toks, selector) ==
    LET list == { i \in Elements(toks) : Selects(selector, toks[i]) }
    IN  IF list = {} THEN toks
        ELSE UnwrapAll(UnwrapManual(toks, Min(list)), selector)
\* a clear that unwraps the manual marks only
ClearManualOnly(toks) == UnwrapAll(toks, "[data-bind-id]")

\* identity.ts:434-454
clearAllHighlights(toks) ==
    UnwrapAll(UnwrapAll(toks, "[data-bind-id]"), ".annotation-highlight")

\* identity.ts:481-490: the wrapper of a restored annotation
SharedWrapper(ann) == Elem("bind", ann.id, {HlClass} \cup TypeClass(ann.type), TRUE)

\* a check of the highlighter's index alone
OnlyHighlighterIndex(toks, ann) == getDoms(toks, ann.id) # {}

\* identity.ts:461-467: the annotation already has a marker
AlreadyHighlighted(toks, ann) ==
    \/ getDoms(toks, ann.id) # {}
    \/ ManualMarks(toks, ann.id) # {}

\* what the body of forEach did for one annotation
Did(ann, what) == [id |-> ann.id, did |-> what]
\* a restore that trusts the stored offsets: the range is the characters
\* [startOffset, endOffset) of the container's text
ApplyOneAtOffsets(st, ann) ==
    IF AlreadyHighlighted(st.dom, ann) THEN [st EXCEPT !.log = Append(@, Did(ann, "skipped"))]
    ELSE LET toks   == st.dom
             starts == { i \in TextLeaves(toks) :
                           CharsBefore(toks, i) + Len(toks[i].s) > ann.startOffset }
             ends   == { i \in TextLeaves(toks) :
                           /\ i >= Min(starts)
                           /\ CharsBefore(toks, i) + Len(toks[i].s) >= ann.endOffset }
         IN  IF starts = {} \/ ends = {} \/ ann.endOffset <= ann.startOffset
             THEN [st EXCEPT !.log = Append(@, Did(ann, "warned"))]
             ELSE [dom |-> WrapRange(toks,
                                     Range(Min(starts),
                                           ann.startOffset - CharsBefore(toks, Min(starts)),
                                           Min(ends),
                                           ann.endOffset - CharsBefore(toks, Min(ends))),
                                     SharedWrapper(ann)),
                   log |-> Append(st.log, Did(ann, "wrapped"))]

\* identity.ts:460-510, the body of forEach for one annotation
ApplyOne(st, ann) ==
    IF AlreadyHighlighted(st.dom, ann) THEN [st EXCEPT !.log = Append(@, Did(ann, "skipped"))]
    ELSE LET range == findTextInDOM(st.dom, ann.originalText)
         IN  IF ~range.found
             THEN [st EXCEPT !.log = Append(@, Did(ann, "warned"))]
             ELSE [dom |-> WrapRange(st.dom, range, SharedWrapper(ann)),
                   log |-> Append(st.log, Did(ann, "wrapped"))]

RECURSIVE StopAtWarning(_, _)
\* a loop that ends at the first annotation it cannot place
StopAtWarning(st, batch) ==
    IF batch = <<>> THEN st
    ELSE LET next == ApplyOne(st, Head(batch))
         IN  IF next.log[Len(next.log)].did = "warned" THEN next
             ELSE StopAtWarning(next, Tail(batch))

RECURSIVE ApplyAll(_, _)
\* identity.ts:460, sharedAnnotations.forEach
ApplyAll(st, batch) ==
    IF batch = <<>> THEN st ELSE ApplyAll(ApplyOne(st, Head(batch)), Tail(batch))

\* identity.ts:456-511
applySharedAnnotations(toks, sharedAnnotations) ==
    ApplyAll([dom |-> toks, log |-> <<>>], sharedAnnotations)
\* a handler that wraps the code but leaves blockId and the offsets at the
\* defaults of createAnnotationFromSource (identity.ts:306-307)
handleCodeBlockUnanchored(toks, blockId, type, text, now) ==
    LET element == Min({ i \in Elements(toks) :
                         toks[i].tag = "block" /\ toks[i].id = blockId /\ toks[i].orig })
        codes   == { i \in { j \in Elements(toks) : toks[j].tag = "code" } :
                        i > element /\ i < EndOf(toks, element) }
        codeEl  == Min(codes)
        close   == EndOf(toks, codeEl)
        id      == 100 + now
        codeText == textContent(Children(toks, codeEl))
        wrapper == Elem("bind", id, {HlClass} \cup TypeClass(type), TRUE)
    IN  IF codes = {} THEN [done |-> FALSE, dom |-> toks, ann |-> <<>>]
        ELSE [ done |-> TRUE,
               dom |-> SubSeq(toks, 1, codeEl) \o <<wrapper>> \o Children(toks, codeEl)
                       \o <<EndTag>> \o SubSeq(toks, close, Len(toks)),
               ann |-> << [ id |-> id, blockId |-> 0, startOffset |-> 0,
                            endOffset |-> 0, type |-> type, text |-> text,
                            originalText |-> codeText, author |-> Me,
                            via |-> "codeblock" ] >> ]

\* identity.ts:602-657; element is the hovered block's own element
handleCodeBlockAnnotate(toks, blockId, type, text, now) ==
    LET element == Min({ i \in Elements(toks) :
                         toks[i].tag = "block" /\ toks[i].id = blockId /\ toks[i].orig })
        codes   == { i \in { j \in Elements(toks) : toks[j].tag = "code" } :
                        i > element /\ i < EndOf(toks, element) }
        codeEl  == Min(codes)
        close   == EndOf(toks, codeEl)
        id      == 100 + now
        codeText == textContent(Children(toks, codeEl))
        wrapper == Elem("bind", id, {HlClass} \cup TypeClass(type), TRUE)
    IN  IF codes = {} THEN [done |-> FALSE, dom |-> toks, ann |-> <<>>]
        ELSE [ done |-> TRUE,
               dom |-> SubSeq(toks, 1, codeEl) \o <<wrapper>> \o Children(toks, codeEl)
                       \o <<EndTag>> \o SubSeq(toks, close, Len(toks)),
               ann |-> << [ id |-> id, blockId |-> blockId, startOffset |-> 0,
                            endOffset |-> Len(codeText), type |-> type, text |-> text,
                            originalText |-> codeText, author |-> Me,
                            via |-> "codeblock" ] >> ]

-----------------------------------------------------------------------------
(* The Viewer as a state machine *)

\* what a decoded batch may hold: id 1 may be the id of one of this session's own
\* highlights, 7 and 8 are foreign; <<"b","a">> occurs only across the two blocks
\* and <<"b","b">> does not occur in the document.  The block ids and offsets
\* are the ones createAnnotationFromSource stored when the annotation was made
\* (the deletion 7 on the "a" of the code block; 8 in another version of the
\* document); the codec drops the anchor hints
Shared(id, type, originalText, blockId, startOffset) ==
    [ id |-> id, type |-> type, originalText |-> originalText, blockId |-> blockId,
      startOffset |-> startOffset, endOffset |-> startOffset + Len(originalText),
      startMeta |-> Undefined, endMeta |-> Undefined ]
SharedAnns == { Shared(1, "DELETION", <<"a", "b">>, 1, 0),
                Shared(7, "COMMENT",  <<"b", "a">>, 1, 2),
                Shared(7, "DELETION", <<"a">>,      2, 0),
                Shared(8, "DELETION", <<"b", "b">>, 2, 1) }
SharedIds  == { x.id : x \in SharedAnns }

\* every batch of one or two of them
Batches    == { <<x>> : x \in SharedAnns } \cup { <<x, y>> : x \in SharedAnns, y \in SharedAnns }

\* the batches restored while the reader is annotating
FewBatches == { <<x>> : x \in { y \in SharedAnns : Len(y.originalText) = Len(Blocks[1].content) } }

\* the selections the user makes, as character ranges [s, e) of the flattened
\* text "abab": inside the paragraph, the whole paragraph, across the two blocks,
\* inside the code block
Selections == { <<0, 1>>, <<0, 2>>, <<1, 3>>, <<3, 4>> }

\* the selections made while links are restored
FewSelections == { <<0, 2>> }

\* the ids removeHighlight may be called with: those of the annotations the
\* parent holds, which it was handed by onAddAnnotation or decoded from a link
RemovableIds == { added[i].id : i \in 1 .. Len(added) } \cup SharedIds

NoCall == [op |-> "none", id |-> 0, log |-> <<>>]

InitViewer ==
    /\ dom = Render(Blocks)
    /\ pendingSourceRef = NoSource
    /\ toolbarState = NoSource
    /\ mode = "selection"
    /\ modeRef = mode
    /\ hoveredCodeBlock = 0
    /\ added = <<>>
    /\ last = NoCall
    /\ nextId = 1
    /\ clock = 0
    /\ ops = 0

\* The user completes a selection of the characters [s, e): web-highlighter wraps
\* it and emits CREATE (identity.ts:526)
SelectText(s, e) ==
    /\ ops < MaxOps
    /\ Selectable(dom, s, e)
    /\ LET source == Source(nextId, Slice(textContent(dom), s, e))
           h      == CreateHandler(HlWrap(dom, 0, s, e, nextId), source)
       IN  /\ dom' = h.dom
           /\ pendingSourceRef' = h.pending
           /\ toolbarState' = h.toolbar
           /\ added' = h.added
    /\ nextId' = nextId + 1
    /\ ops' = ops + 1
    /\ UNCHANGED <<mode, modeRef, hoveredCodeBlock, last, clock>>
    /\ UNCHANGED <<findVars, shareVars, auxVars>>
\* a handler that leaves the toolbar up after a commit (without identity.ts:588-589)
AnnotateKeepsToolbar(type, text) ==
    /\ toolbarState # NoSource
    /\ LET c == createAnnotationFromSource(dom, toolbarState, type, text, "toolbar")
       IN  /\ dom' = c.dom
           /\ added' = Append(added, c.ann)
    /\ UNCHANGED <<pendingSourceRef, toolbarState>>
    /\ UNCHANGED <<mode, modeRef, hoveredCodeBlock, last, nextId, clock, ops>>
    /\ UNCHANGED <<findVars, shareVars, auxVars>>

\* identity.ts:583-591, from the toolbar's delete or comment button
Annotate(type, text) ==
    /\ toolbarState # NoSource
    /\ LET c == createAnnotationFromSource(dom, toolbarState, type, text, "toolbar")
       IN  /\ dom' = c.dom
           /\ added' = Append(added, c.ann)
    /\ pendingSourceRef' = NoSource
    /\ toolbarState' = NoSource
    /\ UNCHANGED <<mode, modeRef, hoveredCodeBlock, last, nextId, clock, ops>>
    /\ UNCHANGED <<findVars, shareVars, auxVars>>

\* identity.ts:593-600
ToolbarClose ==
    /\ toolbarState # NoSource
    /\ dom' = HlRemove(dom, toolbarState.id)
    /\ pendingSourceRef' = NoSource
    /\ toolbarState' = NoSource
    /\ UNCHANGED <<mode, modeRef, hoveredCodeBlock, added, last, nextId, clock, ops>>
    /\ UNCHANGED <<findVars, shareVars, auxVars>>

\* the parent changes the mode prop; the effect of identity.ts:290-292 runs with
\* the commit of that render, before the next event is dispatched
SetMode(m) ==
    /\ m # mode
    /\ mode' = m
    /\ modeRef' = m
    /\ UNCHANGED <<dom, pendingSourceRef, toolbarState, hoveredCodeBlock, added, last,
                   nextId, clock, ops>>
    /\ UNCHANGED <<findVars, shareVars, auxVars>>

\* identity.ts:675-687, onHover of a code block
HoverCodeBlock(b) ==
    /\ Blocks[b].type = "code"
    /\ toolbarState = NoSource
    /\ hoveredCodeBlock # Blocks[b].id
    /\ hoveredCodeBlock' = Blocks[b].id
    /\ UNCHANGED <<dom, pendingSourceRef, toolbarState, mode, modeRef, added, last,
                   nextId, clock, ops>>
    /\ UNCHANGED <<findVars, shareVars, auxVars>>

\* identity.ts:659-661 and the timers of 688-698
LeaveCodeBlock ==
    /\ hoveredCodeBlock # 0
    /\ hoveredCodeBlock' = 0
    /\ UNCHANGED <<dom, pendingSourceRef, toolbarState, mode, modeRef, added, last,
                   nextId, clock, ops>>
    /\ UNCHANGED <<findVars, shareVars, auxVars>>

\* identity.ts:602-657, from the code block toolbar (shown while no selection
\* toolbar is, identity.ts:713); now is what Date.now() returns
CodeBlockAnnotate(type, text, now) ==
    /\ ops < MaxOps
    /\ hoveredCodeBlock # 0
    /\ toolbarState = NoSource
    /\ now >= clock
    /\ LET c == handleCodeBlockAnnotate(dom, hoveredCodeBlock, type, text, now)
       IN  /\ c.done
           /\ dom' = c.dom
           /\ added' = added \o c.ann
    /\ hoveredCodeBlock' = 0
    /\ clock' = now
    /\ ops' = ops + 1
    /\ UNCHANGED <<pendingSourceRef, toolbarState, mode, modeRef, last, nextId>>
    /\ UNCHANGED <<findVars, shareVars, auxVars>>

\* ViewerHandle.removeHighlight
RemoveHighlight(id) ==
    /\ ops < MaxOps
    /\ dom' = removeHighlight(dom, id)
    /\ last' = [op |-> "removeHighlight", id |-> id,
                log |-> << [id |-> id,
                            did |-> IF getDoms(dom, id) # {} \/ ManualMarks(dom, id) # {}
                                    THEN "unwrapped" ELSE "nothing"] >>]
    /\ ops' = ops + 1
    /\ UNCHANGED <<pendingSourceRef, toolbarState, mode, modeRef, hoveredCodeBlock, added,
                   nextId, clock>>
    /\ UNCHANGED <<findVars, shareVars, auxVars>>

\* ViewerHandle.clearAllHighlights
ClearAllHighlights ==
    /\ ops < MaxOps
    /\ dom' = clearAllHighlights(dom)
    /\ last' = [op |-> "clearAllHighlights", id |-> 0, log |-> <<>>]
    /\ ops' = ops + 1
    /\ UNCHANGED <<pendingSourceRef, toolbarState, mode, modeRef, hoveredCodeBlock, added,
                   nextId, clock>>
    /\ UNCHANGED <<findVars, shareVars, auxVars>>

\* ViewerHandle.applySharedAnnotations
ApplyShared(batch) ==
    /\ ops < MaxOps
    /\ LET r == applySharedAnnotations(dom, batch)
       IN  /\ dom' = r.dom
           /\ last' = [op |-> "applySharedAnnotations", id |-> 0, log |-> r.log]
    /\ ops' = ops + 1
    /\ UNCHANGED <<pendingSourceRef, toolbarState, mode, modeRef, hoveredCodeBlock, added,
                   nextId, clock>>
    /\ UNCHANGED <<findVars, shareVars, auxVars>>

ToolbarChoices == { <<"DELETION", Undefined>> } \cup { <<"COMMENT", c>> : c \in Comments }

\* a reader annotating, with a link restored now and then
NextViewer ==
    \/ \E sel \in Selections : SelectText(sel[1], sel[2])
    \/ \E c \in ToolbarChoices : Annotate(c[1], c[2])
    \/ ToolbarClose
    \/ \E m \in Modes : SetMode(m)
    \/ \E b \in 1 .. Len(Blocks) : HoverCodeBlock(b)
    \/ LeaveCodeBlock
    \/ \E c \in ToolbarChoices : \E now \in {clock, clock + 1} : CodeBlockAnnotate(c[1], c[2], now)
    \/ \E id \in RemovableIds : RemoveHighlight(id)
    \/ ClearAllHighlights
    \/ \E batch \in FewBatches : ApplyShared(batch)

\* links restored and removed, with a selection or a code block annotation now
\* and then; the reader stays in selection mode
NextRestore ==
    \/ \E sel \in FewSelections : SelectText(sel[1], sel[2])
    \/ \E c \in ToolbarChoices : Annotate(c[1], c[2])
    \/ ToolbarClose
    \/ \E b \in 1 .. Len(Blocks) : HoverCodeBlock(b)
    \/ LeaveCodeBlock
    \/ \E c \in ToolbarChoices : \E now \in {clock, clock + 1} : CodeBlockAnnotate(c[1], c[2], now)
    \/ \E id \in RemovableIds : RemoveHighlight(id)
    \/ ClearAllHighlights
    \/ \E batch \in Batches : ApplyShared(batch)

-----------------------------------------------------------------------------
(* findTextInDOM on its own: every split of every short text into leaves *)

\* the text nodes of text when it is cut after the positions in cuts
LeavesOf(text, cuts) ==
    LET bounds == {0, Len(text)} \cup cuts
        nth(i) == CHOOSE b \in bounds : Cardinality({ x \in bounds : x < b }) = i
    IN  [i \in 1 .. (Cardinality(bounds) - 1) |-> TextNode(Slice(text, nth(i - 1), nth(i)))]

Texts(n) == [1 .. n -> Chars]

InitFind ==
    /\ \E n \in 1 .. MaxText : \E text \in Texts(n) : \E cuts \in SUBSET (1 .. (n - 1)) :
          fLeaves = << Elem("block", 1, {}, TRUE) >> \o LeavesOf(text, cuts) \o << EndTag >>
    /\ \E n \in 1 .. MaxSearch : fSearch \in Texts(n)
    /\ fResult = NoRange
    /\ fCalls = 0

\* one call of findTextInDOM(searchText)
Find ==
    /\ fCalls < MaxFind
    /\ fResult' = findTextInDOM(fLeaves, fSearch)
    /\ fCalls' = fCalls + 1
    /\ UNCHANGED <<fLeaves, fSearch>>
    /\ UNCHANGED <<viewerVars, shareVars, auxVars>>

-----------------------------------------------------------------------------
(* utils/sharing: parseShareHash, generateShareUrl, fromShareable and       *)
(* formatUrlSize.  The module is imported by useSharing.ts:12-17 and is not *)
(* among the sources; it is written here from the specification's          *)
(* ShareCodec contract: the transport carries the document and, for every  *)
(* annotation, its semantic fields; the anchor hints startMeta and endMeta *)
(* are dropped; a transport of another schema decodes to nothing.          *)

Docs == {"plan", "other"}

Annotation(id, blockId, startOffset, endOffset, type, text, originalText, meta) ==
    [ id |-> id, blockId |-> blockId, startOffset |-> startOffset,
      endOffset |-> endOffset, type |-> type, text |-> text,
      originalText |-> originalText, author |-> Me, startMeta |-> meta, endMeta |-> meta ]

\* annotations as a session makes them, with the hints of the live selection
MadeDeletion == Annotation(1, 1, 0, 2, "DELETION", Undefined, <<"a", "b">>, "hint")
MadeComment  == Annotation(2, 2, 1, 2, "COMMENT",  "note",    <<"b">>,      "hint")
\* another session's annotation that has the id of MadeDeletion
OtherComment == Annotation(1, 2, 0, 1, "COMMENT",  "note",    <<"a">>,      "hint")

\* the annotations of the model, with their hints and without
Annotations == LET made == {MadeDeletion, MadeComment, OtherComment}
               IN  made \cup { [x EXCEPT !.startMeta = Undefined, !.endMeta = Undefined] : x \in made }

\* the annotation sets of the model: every list of at most MaxAnns of them
AnnSets == UNION { [1 .. n -> Annotations] : n \in 0 .. MaxAnns }

Schema == "v1"

TypeCode(type) == IF type = "DELETION" THEN "D" ELSE "C"
TypeOfCode(c)  == IF c = "D" THEN "DELETION" ELSE "COMMENT"

\* the compact form of one annotation
toShareable(a) ==
    << TypeCode(a.type), a.originalText, a.text, a.author,
       a.id, a.blockId, a.startOffset, a.endOffset >>

\* the transport string of (d, A), as the value it serialises
Transport(d, A) ==
    [v |-> Schema, p |-> d, a |-> [i \in 1 .. Len(A) |-> toShareable(A[i])]]

NoTransport   == [v |-> "",   p |-> "", a |-> <<>>]
Malformed     == [v |-> "??", p |-> "", a |-> <<>>]

\* the characters of a transport string
TransportLen(t) == IF t = NoTransport THEN 0 ELSE 1 + Len(t.p) + Len(t.a)

\* window.location.hash: its length and what follows the "#"
NoHash      == [len |-> 0, body |-> NoTransport]
BareHash    == [len |-> 1, body |-> NoTransport]
HashOf(t)   == [len |-> 1 + TransportLen(t), body |-> t]

\* a URL: what precedes the "#", and the hash
NoUrl == [base |-> "", hash |-> NoHash]

\* generateShareUrl(markdown, annotations)
generateShareUrl(d, A) == [base |-> "https://share/", hash |-> HashOf(Transport(d, A))]

\* fromShareable(payload.a)
fromShareable(list) ==
    [i \in 1 .. Len(list) |->
        Annotation(list[i][5], list[i][6], list[i][7], list[i][8],
                   TypeOfCode(list[i][1]), list[i][3], list[i][2], Undefined)]

NoPayload == [ok |-> FALSE, p |-> "", a |-> <<>>]

\* parseShareHash() on the hash h: null for no hash and for a transport that
\* does not decode
parseShareHash(h) ==
    IF h.len > 1 /\ h.body.v = Schema
    THEN [ok |-> TRUE, p |-> h.body.p, a |-> h.body.a]
    ELSE NoPayload

NoSize == [n |-> 0, unit |-> ""]

\* formatUrlSize(url)
formatUrlSize(url) ==
    LET n == Len(url.base) + url.hash.len
    IN  IF n < 1024 THEN [n |-> n, unit |-> "B"] ELSE [n |-> n \div 1024, unit |-> "KB"]

\* the semantic fields of an annotation set: all but the anchor hints
Semantic(A) ==
    [i \in 1 .. Len(A) |->
        [ id |-> A[i].id, blockId |-> A[i].blockId, startOffset |-> A[i].startOffset,
          endOffset |-> A[i].endOffset, type |-> A[i].type, text |-> A[i].text,
          originalText |-> A[i].originalText, author |-> A[i].author ]]

IdsOf(A) == { A[i].id : i \in 1 .. Len(A) }

-----------------------------------------------------------------------------
(* useSharing, src/packages/ui/hooks/useSharing.ts *)

\* a value of type Annotation[] | null
Null      == [isNull |-> TRUE,  value |-> <<>>]
Some(A)   == [isNull |-> FALSE, value |-> A]

\* a load that keeps the document it had
CommitAnnotationsOnly(payload) ==
    [markdown |-> markdown, annotations |-> fromShareable(payload.a)]

\* a load that merges what it decoded into the annotations it had, by id
CommitMerged(payload) ==
    LET restored == fromShareable(payload.a)
        kept     == SelectSeq(annotations, LAMBDA x : x.id \notin IdsOf(restored))
    IN  [markdown |-> payload.p, annotations |-> kept \o restored]

\* useSharing.ts:66-70: what loadFromHash hands to setMarkdown and setAnnotations
Commit(payload) ==
    [markdown |-> payload.p, annotations |-> fromShareable(payload.a)]

\* the links of two other sessions: the second holds an annotation with an id
\* the first uses too
LinkA == generateShareUrl("other", <<MadeDeletion, MadeComment>>).hash
LinkB == generateShareUrl("plan", <<OtherComment>>).hash

\* what the steps after the state updates may do (useSharing.ts:78 and 82-86):
\* return, or throw (onSharedLoad is the caller's, replaceState the browser's)
Outcomes == {"returns", "throws"}

Load(n, h, mount) == [n |-> n, hash |-> h, mount |-> mount]
\* a call of refreshShareUrl: the markdown and annotations of its closure (two
\* calls with the same closure settle alike and are kept as one)
Gen(d, A)         == [markdown |-> d, annotations |-> A]

\* after the first render and its effects (useSharing.ts:98-100 and 128-130):
\* the load of the mount and the first generation are under way
InitShare ==
    /\ markdown = "plan"
    /\ annotations = <<>>
    /\ isSharedSession = FALSE
    /\ isLoadingShared = TRUE
    /\ shareUrl = NoUrl
    /\ shareUrlSize = NoSize
    /\ pendingSharedAnnotations = Null
    /\ hash \in {NoHash, LinkA, HashOf(Malformed)}
    /\ loads = { Load(1, hash, TRUE) }
    /\ gens = { Gen(markdown, annotations) }
    /\ loadLog = <<>>
    /\ sharedLoads = 0
    /\ started = 1
    /\ edits = 0

\* the user opens the link h in this tab: hashchange, useSharing.ts:104-108
HashChange(h) ==
    /\ started < MaxLoads
    /\ h # hash
    /\ hash' = h
    /\ IF h.len > 1
       THEN /\ loads' = loads \cup { Load(started + 1, h, FALSE) }
            /\ started' = started + 1
       ELSE UNCHANGED <<loads, started>>
    /\ UNCHANGED <<markdown, annotations, isSharedSession, isLoadingShared, shareUrl,
                   shareUrlSize, pendingSharedAnnotations, gens, loadLog, sharedLoads, edits>>
    /\ UNCHANGED <<viewerVars, findVars, auxVars>>
\* a load whose caller on mount clears isLoadingShared only when the load
\* returned true
LoadClearsFlagOnSuccess(l, outcome) ==
    /\ l \in loads
    /\ loads' = loads \ {l}
    /\ LET payload == parseShareHash(l.hash)
       IN  IF payload.ok
           THEN /\ markdown' = Commit(payload).markdown
                /\ annotations' = Commit(payload).annotations
                /\ pendingSharedAnnotations' = Some(annotations')
                /\ isSharedSession' = TRUE
                /\ sharedLoads' = sharedLoads + 1
                /\ hash' = IF outcome = "returns" THEN NoHash ELSE hash
                /\ loadLog' = Append(loadLog, [hash |-> l.hash, result |-> outcome = "returns"])
                /\ gens' = gens \cup { Gen(markdown', annotations') }
                /\ isLoadingShared' = IF l.mount /\ outcome = "returns"
                                      THEN FALSE ELSE isLoadingShared
           ELSE /\ outcome = "returns"
                /\ loadLog' = Append(loadLog, [hash |-> l.hash, result |-> FALSE])
                /\ UNCHANGED <<markdown, annotations, pendingSharedAnnotations,
                               isSharedSession, sharedLoads, hash, gens, isLoadingShared>>
    /\ UNCHANGED <<shareUrl, shareUrlSize, started, edits>>
    /\ UNCHANGED <<viewerVars, findVars, auxVars>>

\* a load that leaves the fragment in the address bar after it installed what
\* it decoded
LoadKeepsHash(l, outcome) ==
    /\ l \in loads
    /\ loads' = loads \ {l}
    /\ isLoadingShared' = IF l.mount THEN FALSE ELSE isLoadingShared
    /\ LET payload == parseShareHash(l.hash)
       IN  IF payload.ok
           THEN /\ markdown' = Commit(payload).markdown
                /\ annotations' = Commit(payload).annotations
                /\ pendingSharedAnnotations' = Some(annotations')
                /\ isSharedSession' = TRUE
                /\ sharedLoads' = sharedLoads + 1
                /\ hash' = hash
                /\ loadLog' = Append(loadLog, [hash |-> l.hash, result |-> outcome = "returns"])
                /\ gens' = gens \cup { Gen(markdown', annotations') }
           ELSE /\ outcome = "returns"
                /\ loadLog' = Append(loadLog, [hash |-> l.hash, result |-> FALSE])
                /\ UNCHANGED <<markdown, annotations, pendingSharedAnnotations,
                               isSharedSession, sharedLoads, hash, gens>>
    /\ UNCHANGED <<shareUrl, shareUrlSize, started, edits>>
    /\ UNCHANGED <<viewerVars, findVars, auxVars>>

\* parseShareHash settles and the rest of loadFromHash runs, useSharing.ts:60-95;
\* for the load of the mount, finally clears isLoadingShared (useSharing.ts:99).
\* The parent's new markdown and annotations start a generation (128-130).
LoadSettle(l, outcome) ==
    /\ l \in loads
    /\ loads' = loads \ {l}
    /\ isLoadingShared' = IF l.mount THEN FALSE ELSE isLoadingShared
    /\ LET payload == parseShareHash(l.hash)
       IN  IF payload.ok
           THEN /\ markdown' = Commit(payload).markdown
                /\ annotations' = Commit(payload).annotations
                /\ pendingSharedAnnotations' = Some(annotations')
                /\ isSharedSession' = TRUE
                /\ sharedLoads' = sharedLoads + 1
                /\ hash' = IF outcome = "returns" THEN NoHash ELSE hash
                /\ loadLog' = Append(loadLog, [hash |-> l.hash, result |-> outcome = "returns"])
                /\ gens' = gens \cup { Gen(markdown', annotations') }
           ELSE /\ outcome = "returns"
                /\ loadLog' = Append(loadLog, [hash |-> l.hash, result |-> FALSE])
                /\ UNCHANGED <<markdown, annotations, pendingSharedAnnotations,
                               isSharedSession, sharedLoads, hash, gens>>
    /\ UNCHANGED <<shareUrl, shareUrlSize, started, edits>>
    /\ UNCHANGED <<viewerVars, findVars, auxVars>>

\* the parent appends an annotation the user made to its annotations; the new
\* refreshShareUrl is called by the effect of useSharing.ts:128-130
AddAnnotation(x) ==
    /\ edits < MaxEdits
    /\ x.id \notin IdsOf(annotations)
    /\ annotations' = Append(annotations, x)
    /\ gens' = gens \cup { Gen(markdown, annotations') }
    /\ edits' = edits + 1
    /\ UNCHANGED <<markdown, isSharedSession, isLoadingShared, shareUrl, shareUrlSize,
                   pendingSharedAnnotations, hash, loads, loadLog, sharedLoads, started>>
    /\ UNCHANGED <<viewerVars, findVars, auxVars>>
\* a refresh that, when the generation fails, empties the URL and leaves the
\* size it showed
RefreshKeepsSize(g, ok) ==
    /\ g \in gens
    /\ gens' = gens \ {g}
    /\ shareUrl' = IF ok THEN generateShareUrl(g.markdown, g.annotations) ELSE NoUrl
    /\ shareUrlSize' = IF ok THEN formatUrlSize(shareUrl') ELSE shareUrlSize
    /\ UNCHANGED <<markdown, annotations, isSharedSession, isLoadingShared,
                   pendingSharedAnnotations, hash, loads, loadLog, sharedLoads, started, edits>>
    /\ UNCHANGED <<viewerVars, findVars, auxVars>>

\* generateShareUrl settles, useSharing.ts:117-119, or rejects, 120-124
RefreshSettle(g, ok) ==
    /\ g \in gens
    /\ gens' = gens \ {g}
    /\ shareUrl' = IF ok THEN generateShareUrl(g.markdown, g.annotations) ELSE NoUrl
    /\ shareUrlSize' = IF ok THEN formatUrlSize(shareUrl') ELSE NoSize
    /\ UNCHANGED <<markdown, annotations, isSharedSession, isLoadingShared,
                   pendingSharedAnnotations, hash, loads, loadLog, sharedLoads, started, edits>>
    /\ UNCHANGED <<viewerVars, findVars, auxVars>>

\* useSharing.ts:55-57
ClearPendingSharedAnnotations ==
    /\ pendingSharedAnnotations # Null
    /\ pendingSharedAnnotations' = Null
    /\ UNCHANGED <<markdown, annotations, isSharedSession, isLoadingShared, shareUrl,
                   shareUrlSize, hash, loads, gens, loadLog, sharedLoads, started, edits>>
    /\ UNCHANGED <<viewerVars, findVars, auxVars>>

\* the hashes the user may bring into the address bar: another session's link, a
\* malformed one, a bare "#", none at all, or the link this session shows
Openable == {LinkB, HashOf(Malformed), BareHash, NoHash}
            \cup (IF shareUrl = NoUrl THEN {} ELSE {shareUrl.hash})

NextShare ==
    \/ \E h \in Openable : HashChange(h)
    \/ \E l \in loads : \E outcome \in Outcomes : LoadSettle(l, outcome)
    \/ \E x \in {MadeDeletion, MadeComment} : AddAnnotation(x)
    \/ \E g \in gens : \E ok \in BOOLEAN : RefreshSettle(g, ok)
    \/ ClearPendingSharedAnnotations

-----------------------------------------------------------------------------
(* The decision relay: the hook script (src/legacy/hooks/exit-plan-mode.sh)  *)
(* and the server it launches (src/legacy/utils/identity.ts:82-218).  A      *)
(* process's stdout and stderr are the sequences of what it wrote.           *)

NoDecision == [made |-> FALSE, approved |-> FALSE, feedback |-> ""]
Decision(approved, feedback) == [made |-> TRUE, approved |-> approved, feedback |-> feedback]

\* the exit status of a process: none while it runs
Running   == [exited |-> FALSE, code |-> 0]
Exited(n) == [exited |-> TRUE,  code |-> n]

\* what reaches the relay: the event the hook reads on stdin, or a direct start
\* of the server with argv[2] and PLAN_CONTENT
Launches ==
    [by : {"hook"}, tool : {"ExitPlanMode", "Write"}, plan : {"", "null", "the plan"}, env : {""}]
    \cup [by : {"direct"}, tool : {""}, plan : {"", "the plan"}, env : {"", "env plan"}]

\* the requests the page (or anyone on localhost) sends; body is the parsed
\* JSON's feedback, "" when the field is absent, and malformed when req.json() throws
Requests ==
    { [path |-> "/api/plan",    method |-> "GET",  body |-> "",       malformed |-> FALSE],
      [path |-> "/api/approve", method |-> "POST", body |-> "",       malformed |-> FALSE],
      [path |-> "/api/approve", method |-> "GET",  body |-> "",       malformed |-> FALSE],
      [path |-> "/api/deny",    method |-> "POST", body |-> "fix it", malformed |-> FALSE],
      [path |-> "/api/deny",    method |-> "POST", body |-> "",       malformed |-> FALSE],
      [path |-> "/api/deny",    method |-> "POST", body |-> "",       malformed |-> TRUE] }

\* identity.ts:93
planContent(launch) ==
    IF launch.plan # "" THEN launch.plan
    ELSE IF launch.env # "" THEN launch.env
    ELSE ""
\* a promise that takes the value of every call of its resolve function
resolveLatest(d, result) == result

\* resolveDecision: a promise settles once, later calls change nothing
resolveDecision(d, result) == IF d.made THEN d ELSE result

\* identity.ts:121-136: the decision a request resolves, if any
Resolved(d, req) ==
    IF req.path = "/api/approve" /\ req.method = "POST"
    THEN resolveDecision(d, Decision(TRUE, ""))
    ELSE IF req.path = "/api/deny" /\ req.method = "POST"
    THEN IF req.malformed \/ req.body = ""
         THEN resolveDecision(d, Decision(FALSE, "Plan rejected by user"))
         ELSE resolveDecision(d, Decision(FALSE, req.body))
    ELSE d

\* identity.ts:196-218: what the server writes once the decision is made, and
\* the status it exits with
DecisionOutput(result) ==
    IF result.approved
    THEN [stdout |-> << [behavior |-> "allow", message |-> ""] >>,
          stderr |-> <<>>, status |-> 0]
    ELSE [stdout |-> << [behavior |-> "deny",
                         message |-> IF result.feedback # "" THEN result.feedback
                                     ELSE "Plan changes requested"] >>,
          stderr |-> <<>>, status |-> 0]

InitRelay ==
    /\ rLaunch \in Launches
    /\ rPc = IF rLaunch.by = "hook" THEN "hook" ELSE "boot"
    /\ rDecision = NoDecision
    /\ rStdout = <<>>
    /\ rStderr = <<>>
    /\ rStatus = Running
    /\ rHookStatus = Running
    /\ rRequests = <<>>

IdleRelay ==
    /\ rLaunch = [by |-> "", tool |-> "", plan |-> "", env |-> ""]
    /\ rPc = "idle"
    /\ rDecision = NoDecision
    /\ rStdout = <<>>
    /\ rStderr = <<>>
    /\ rStatus = Running
    /\ rHookStatus = Running
    /\ rRequests = <<>>

\* exit-plan-mode.sh:19-39, up to the launch of the server
HookRun ==
    /\ rPc = "hook"
    /\ IF rLaunch.tool = "ExitPlanMode" /\ rLaunch.plan # "" /\ rLaunch.plan # "null"
       THEN rPc' = "boot" /\ UNCHANGED rHookStatus
       ELSE rPc' = "done" /\ rHookStatus' = Exited(0)
    /\ UNCHANGED <<rLaunch, rDecision, rStdout, rStderr, rStatus, rRequests>>
    /\ UNCHANGED <<viewerVars, findVars, shareVars, identityVars, clipVars>>

\* identity.ts:93-98 and 110-177
ServerBoot ==
    /\ rPc = "boot"
    /\ IF planContent(rLaunch) = ""
       THEN /\ rStderr' = Append(rStderr, "No plan content provided")
            /\ rStatus' = Exited(1)
            /\ rPc' = "exited"
       ELSE /\ rStderr' = Append(rStderr, "Plannotator server running")
            /\ rPc' = "opening"
            /\ UNCHANGED rStatus
    /\ UNCHANGED <<rLaunch, rDecision, rStdout, rHookStatus, rRequests>>
    /\ UNCHANGED <<viewerVars, findVars, shareVars, identityVars, clipVars>>

\* identity.ts:180-185
OpenBrowser(opened) ==
    /\ rPc = "opening"
    /\ rStderr' = IF opened THEN rStderr ELSE Append(rStderr, "Open browser manually")
    /\ rPc' = IF rDecision.made THEN "closing" ELSE "serving"
    /\ UNCHANGED <<rLaunch, rDecision, rStdout, rStatus, rHookStatus, rRequests>>
    /\ UNCHANGED <<viewerVars, findVars, shareVars, identityVars, clipVars>>

\* a request the server received; reading: its handler is suspended at
\* await req.json()
Received(req, reading) == [req |-> req, reading |-> reading]

\* identity.ts:130: the handlers that read the body before they decide
AwaitsBody(req) == req.path = "/api/deny" /\ req.method = "POST"

\* identity.ts:113-162, a request arrives and its handler runs to its end or,
\* for a deny, to await req.json() (130); from Bun.serve (110) to server.stop
\* (194) the server answers, and the request that settles the promise lets
\* the script go on past line 188
Request(req) ==
    /\ rPc \in {"opening", "serving", "closing"}
    /\ Len(rRequests) < MaxRequests
    /\ rDecision' = IF AwaitsBody(req) THEN rDecision ELSE Resolved(rDecision, req)
    /\ rPc' = IF rPc = "serving" /\ rDecision'.made THEN "closing" ELSE rPc
    /\ rRequests' = Append(rRequests, Received(req, AwaitsBody(req)))
    /\ UNCHANGED <<rLaunch, rStdout, rStderr, rStatus, rHookStatus>>
    /\ UNCHANGED <<viewerVars, findVars, shareVars, identityVars, clipVars>>

\* identity.ts:130-135: req.json() of the i-th request settles (it resolves,
\* or rejects on a malformed body) and the handler calls resolveDecision
BodyRead(i) ==
    /\ rPc \in {"opening", "serving", "closing"}
    /\ rRequests[i].reading
    /\ rDecision' = Resolved(rDecision, rRequests[i].req)
    /\ rPc' = IF rPc = "serving" /\ rDecision'.made THEN "closing" ELSE rPc
    /\ rRequests' = [rRequests EXCEPT ![i].reading = FALSE]
    /\ UNCHANGED <<rLaunch, rStdout, rStderr, rStatus, rHookStatus>>
    /\ UNCHANGED <<viewerVars, findVars, shareVars, identityVars, clipVars>>

\* identity.ts:191-218, after the sleep
ServerFinish ==
    /\ rPc = "closing"
    /\ LET out == DecisionOutput(rDecision)
       IN  /\ rStdout' = rStdout \o out.stdout
           /\ rStderr' = rStderr \o out.stderr
           /\ rStatus' = Exited(out.status)
    /\ rPc' = "exited"
    /\ UNCHANGED <<rLaunch, rDecision, rHookStatus, rRequests>>
    /\ UNCHANGED <<viewerVars, findVars, shareVars, identityVars, clipVars>>

\* exit-plan-mode.sh:33-34, exit $?
HookExit ==
    /\ rPc = "exited"
    /\ rLaunch.by = "hook"
    /\ rHookStatus' = rStatus
    /\ rPc' = "done"
    /\ UNCHANGED <<rLaunch, rDecision, rStdout, rStderr, rStatus, rRequests>>
    /\ UNCHANGED <<viewerVars, findVars, shareVars, identityVars, clipVars>>

NextRelay ==
    \/ HookRun
    \/ ServerBoot
    \/ \E opened \in BOOLEAN : OpenBrowser(opened)
    \/ \E req \in Requests : Request(req)
    \/ \E i \in 1 .. Len(rRequests) : BodyRead(i)
    \/ ServerFinish
    \/ HookExit

-----------------------------------------------------------------------------
(* The identity system, src/legacy/utils/identity.ts:9-79.  A string is the  *)
(* sequence of its parts; what localStorage holds under STORAGE_KEY is a     *)
(* value of type string | null.                                              *)

Adjectives == {"swift", "gentle"}
Nouns      == {"falcon", "crystal"}

NoItem     == [isNull |-> TRUE,  value |-> <<>>]
Item(str)  == [isNull |-> FALSE, value |-> str]

\* how localStorage behaves: it works, every access throws (storage blocked),
\* or reading works and writing throws (no quota)
StorageModes == {"works", "throws", "full"}

\* identity.ts:16-29, with the two words uniqueUsernameGenerator drew
generateIdentity(adjective, noun) == <<adjective, "-", noun, "-", "tater">>

Identities == { generateIdentity(x, y) : x \in Adjectives, y \in Nouns }

\* identity.ts:52-58: what localStorage holds afterwards
saveIdentity(storageMode, stored, identity) ==
    IF storageMode = "works" THEN Item(identity) ELSE stored

\* identity.ts:34-47: what the call returns and what localStorage holds
\* afterwards; fresh is what generateIdentity would return
getIdentity(storageMode, stored, fresh) ==
    IF storageMode # "throws" /\ ~stored.isNull /\ stored.value # <<>>
    THEN [ret |-> stored.value, stored |-> stored]
    ELSE [ret |-> fresh, stored |-> saveIdentity(storageMode, stored, fresh)]

\* identity.ts:72-79
isCurrentUser(storageMode, stored, author) ==
    IF author = <<>> THEN FALSE
    ELSE IF storageMode = "throws" THEN FALSE
    ELSE ~stored.isNull /\ stored.value = author

IdCall(fn, ret) == [fn |-> fn, ret |-> ret]

InitIdentity ==
    /\ iMode \in StorageModes
    /\ iStored \in {NoItem, Item(<<>>)} \cup { Item(x) : x \in Identities }
    /\ iLog = <<>>

IdleIdentity == iMode = "works" /\ iStored = NoItem /\ iLog = <<>>

\* a caller reads the identity (Settings on opening, the Viewer for an author)
GetIdentity(adjective, noun) ==
    /\ Len(iLog) < MaxIdCalls
    /\ LET r == getIdentity(iMode, iStored, generateIdentity(adjective, noun))
       IN  /\ iStored' = r.stored
           /\ iLog' = Append(iLog, IdCall("getIdentity", r.ret))
    /\ UNCHANGED iMode
    /\ UNCHANGED <<viewerVars, findVars, shareVars, relayVars, clipVars>>

\* identity.ts:63-67
RegenerateIdentity(adjective, noun) ==
    /\ Len(iLog) < MaxIdCalls
    /\ LET identity == generateIdentity(adjective, noun)
       IN  /\ iStored' = saveIdentity(iMode, iStored, identity)
           /\ iLog' = Append(iLog, IdCall("regenerateIdentity", identity))
    /\ UNCHANGED iMode
    /\ UNCHANGED <<viewerVars, findVars, shareVars, relayVars, clipVars>>

\* a caller saves an identity of its choice
SaveIdentity(identity) ==
    /\ Len(iLog) < MaxIdCalls
    /\ iStored' = saveIdentity(iMode, iStored, identity)
    /\ iLog' = Append(iLog, IdCall("saveIdentity", identity))
    /\ UNCHANGED iMode
    /\ UNCHANGED <<viewerVars, findVars, shareVars, relayVars, clipVars>>

\* a caller asks whether the author of an annotation is this user
IsCurrentUser(author) ==
    /\ Len(iLog) < MaxIdCalls
    /\ iLog' = Append(iLog, IdCall("isCurrentUser",
                 IF isCurrentUser(iMode, iStored, author) THEN author ELSE <<>>))
    /\ UNCHANGED <<iMode, iStored>>
    /\ UNCHANGED <<viewerVars, findVars, shareVars, relayVars, clipVars>>

NextIdentity ==
    \/ \E x \in Adjectives : \E y \in Nouns : GetIdentity(x, y)
    \/ \E x \in Adjectives : \E y \in Nouns : RegenerateIdentity(x, y)
    \/ \E identity \in Identities : SaveIdentity(identity)
    \/ \E author \in Identities : IsCurrentUser(author)

-----------------------------------------------------------------------------
(* Copying to the clipboard: ExportModal (src/unnamed/part_000) and          *)
(* CodeBlock.handleCopy (identity.ts:801-809).  What the clipboard holds     *)
(* records which of the three texts it is.                                   *)

NoClip          == [kind |-> "",     url |-> NoUrl, diff |-> "", code |-> <<>>]
UrlClip(url)    == [kind |-> "url",  url |-> url,   diff |-> "", code |-> <<>>]
DiffClip(diff)  == [kind |-> "diff", url |-> NoUrl, diff |-> diff, code |-> <<>>]
CodeClip(code)  == [kind |-> "code", url |-> NoUrl, diff |-> "", code |-> code]

\* a call of navigator.clipboard.writeText that has not settled, and the
\* component whose handler awaits it
Write(n, who, text) == [n |-> n, who |-> who, text |-> text]
\* a callback setTimeout holds
Timer(n, who) == [n |-> n, who |-> who]

CodeBlocks == { i \in 1 .. Len(Blocks) : Blocks[i].type = "code" }

InitClipboard ==
    /\ cSharing \in BOOLEAN
    /\ cOpen = TRUE
    /\ cTab = IF cSharing THEN "share" ELSE "diff"
    /\ cCopied = FALSE
    /\ cCodeCopied = FALSE
    /\ cDiff = "diff of the annotations"
    /\ cWrites = {}
    /\ cTimers = {}
    /\ cClipboard = NoClip
    /\ cErrors = 0
    /\ cCopies = 0

IdleClipboard ==
    /\ cSharing = TRUE
    /\ cOpen = FALSE
    /\ cTab = "share"
    /\ cCopied = FALSE
    /\ cCodeCopied = FALSE
    /\ cDiff = ""
    /\ cWrites = {}
    /\ cTimers = {}
    /\ cClipboard = NoClip
    /\ cErrors = 0
    /\ cCopies = 0

\* the share state the modal is shown over: a document with an annotation and
\* the link made of them
SharedForExport ==
    /\ markdown = "plan" /\ annotations = <<MadeDeletion>> /\ isSharedSession = FALSE
    /\ isLoadingShared = FALSE /\ shareUrl = generateShareUrl(markdown, annotations)
    /\ shareUrlSize = NoSize
    /\ pendingSharedAnnotations = Null /\ hash = NoHash /\ loads = {} /\ gens = {}
    /\ loadLog = <<>> /\ sharedLoads = 0 /\ started = 0 /\ edits = 0

\* the handler up to its await: the write is started (part_000:39-40, 49-50,
\* identity.ts:802-803)
StartWrite(who, text) ==
    /\ cCopies < MaxCopies
    /\ cCopies' = cCopies + 1
    /\ cWrites' = cWrites \cup { Write(cCopies + 1, who, text) }
    /\ UNCHANGED <<cSharing, cOpen, cTab, cCopied, cCodeCopied, cDiff, cTimers,
                   cClipboard, cErrors>>

\* part_000:38-46, the button of the share tab (part_000:125-140)
handleCopyUrl ==
    /\ cOpen /\ cSharing /\ cTab = "share"
    /\ StartWrite("modal", UrlClip(shareUrl))
    /\ UNCHANGED <<viewerVars, findVars, shareVars, relayVars, identityVars>>

\* part_000:48-56, the button of the footer (part_000:176-183)
handleCopyDiff ==
    /\ cOpen /\ cTab = "diff"
    /\ StartWrite("modal", DiffClip(cDiff))
    /\ UNCHANGED <<viewerVars, findVars, shareVars, relayVars, identityVars>>

\* identity.ts:801-809, the button of a code block
handleCopy(b) ==
    /\ StartWrite("code", CodeClip(Blocks[b].content))
    /\ UNCHANGED <<viewerVars, findVars, shareVars, relayVars, identityVars>>

\* a write whose handler shows the copied indicator whatever came of it
WriteSettledBlindly(w, ok) ==
    /\ cClipboard' = IF ok THEN w.text ELSE cClipboard
    /\ cCopied' = IF w.who = "modal" THEN TRUE ELSE cCopied
    /\ cCodeCopied' = IF w.who = "code" THEN TRUE ELSE cCodeCopied
    /\ cTimers' = cTimers \cup { Timer(w.n, w.who) }
    /\ cErrors' = IF ok THEN cErrors ELSE cErrors + 1

\* the rest of a handler once its write settled: setCopied(true) and the timer
\* on success, console.error on failure
WriteSettled(w, ok) ==
    IF ok
    THEN /\ cClipboard' = w.text
         /\ cCopied' = IF w.who = "modal" THEN TRUE ELSE cCopied
         /\ cCodeCopied' = IF w.who = "code" THEN TRUE ELSE cCodeCopied
         /\ cTimers' = cTimers \cup { Timer(w.n, w.who) }
         /\ UNCHANGED cErrors
    ELSE /\ cErrors' = cErrors + 1
         /\ UNCHANGED <<cCopied, cCodeCopied, cTimers, cClipboard>>

\* navigator.clipboard.writeText resolves (ok) or rejects
WriteSettle(w, ok) ==
    /\ w \in cWrites
    /\ cWrites' = cWrites \ {w}
    /\ WriteSettled(w, ok)
    /\ UNCHANGED <<cSharing, cOpen, cTab, cDiff, cCopies>>
    /\ UNCHANGED <<viewerVars, findVars, shareVars, relayVars, identityVars>>

\* 2000 ms after a successful write: setCopied(false)
TimerFires(t) ==
    /\ t \in cTimers
    /\ cTimers' = cTimers \ {t}
    /\ cCopied' = IF t.who = "modal" THEN FALSE ELSE cCopied
    /\ cCodeCopied' = IF t.who = "code" THEN FALSE ELSE cCodeCopied
    /\ UNCHANGED <<cSharing, cOpen, cTab, cDiff, cWrites, cClipboard, cErrors, cCopies>>
    /\ UNCHANGED <<viewerVars, findVars, shareVars, relayVars, identityVars>>

\* part_000:101-120, the tabs
SetActiveTab(tab) ==
    /\ cOpen /\ cSharing
    /\ tab # cTab
    /\ cTab' = tab
    /\ UNCHANGED <<cSharing, cOpen, cCopied, cCodeCopied, cDiff, cWrites, cTimers,
                   cClipboard, cErrors, cCopies>>
    /\ UNCHANGED <<viewerVars, findVars, shareVars, relayVars, identityVars>>

\* the parent shows or hides the modal (prop isOpen, part_000:36)
SetOpen(open) ==
    /\ open # cOpen
    /\ cOpen' = open
    /\ UNCHANGED <<cSharing, cTab, cCopied, cCodeCopied, cDiff, cWrites, cTimers,
                   cClipboard, cErrors, cCopies>>
    /\ UNCHANGED <<viewerVars, findVars, shareVars, relayVars, identityVars>>

NextClipboard ==
    \/ handleCopyUrl
    \/ handleCopyDiff
    \/ \E b \in CodeBlocks : handleCopy(b)
    \/ \E w \in cWrites : \E ok \in BOOLEAN : WriteSettle(w, ok)
    \/ \E t \in cTimers : TimerFires(t)
    \/ \E tab \in {"share", "diff"} : SetActiveTab(tab)
    \/ \E open \in BOOLEAN : SetOpen(open)

-----------------------------------------------------------------------------
(* Specifications *)

IdleFind  == fLeaves = <<>> /\ fSearch = <<>> /\ fResult = NoRange /\ fCalls = 0
IdleShare ==
    /\ markdown = "plan" /\ annotations = <<>> /\ isSharedSession = FALSE
    /\ isLoadingShared = FALSE /\ shareUrl = NoUrl /\ shareUrlSize = NoSize
    /\ pendingSharedAnnotations = Null /\ hash = NoHash /\ loads = {} /\ gens = {}
    /\ loadLog = <<>> /\ sharedLoads = 0 /\ started = 0 /\ edits = 0

IdleAux == IdleRelay /\ IdleIdentity /\ IdleClipboard

\* the Viewer with a reader annotating
Init == InitViewer /\ IdleFind /\ IdleShare /\ IdleAux
Next == NextViewer
Spec == Init /\ [][Next]_vars

\* the Viewer with links restored
SpecRestore == Init /\ [][NextRestore]_vars

\* findTextInDOM
InitF == InitFind /\ InitViewer /\ IdleShare /\ IdleAux
SpecFind == InitF /\ [][Find]_vars

\* useSharing
InitS == InitShare /\ InitViewer /\ IdleFind /\ IdleAux
SpecShare == InitS /\ [][NextShare]_vars

\* the call of loadFromHash made on mount settles: parseShareHash resolves or
\* rejects, and the try/catch of useSharing.ts:61-94 lets the call return
MountLoadSettles ==
    \E l \in loads : \E outcome \in Outcomes : l.mount /\ LoadSettle(l, outcome)

\* useSharing where a decode that was started completes
SpecShareLive == InitS /\ [][NextShare]_vars /\ WF_vars(MountLoadSettles)

\* the decision relay
InitR == InitRelay /\ InitViewer /\ IdleFind /\ IdleShare /\ IdleIdentity /\ IdleClipboard
SpecRelay == InitR /\ [][NextRelay]_vars

\* the identity system
InitI == InitIdentity /\ InitViewer /\ IdleFind /\ IdleShare /\ IdleRelay /\ IdleClipboard
SpecIdentity == InitI /\ [][NextIdentity]_vars

\* copying to the clipboard
InitC == InitClipboard /\ InitViewer /\ IdleFind /\ SharedForExport /\ IdleRelay /\ IdleIdentity
SpecClipboard == InitC /\ [][NextClipboard]_vars

-----------------------------------------------------------------------------
(* Properties *)

\* the entry of the call of loadFromHash that settled last
LastLoad == loadLog[Len(loadLog)]

\* every link generateShareUrl makes, with the document and the annotation set
\* it was made from
Links ==
    { [d |-> d, A |-> A, hash |-> generateShareUrl(d, A).hash] : d \in Docs, A \in AnnSets }

\* the links that carry hash h
LinksByHash == [h \in { l.hash : l \in Links } |-> { l \in Links : l.hash = h }]
LinksTo(h)  == IF h \in DOMAIN LinksByHash THEN LinksByHash[h] ELSE {}

UniqueOccurrenceFound ==
    (fCalls > 0 /\ Occurrences(textContent(fLeaves), fSearch) = 1) =>
        (fResult.found /\ RangeText(fLeaves, fResult) = fSearch)

\* the one occurrence was found across two text nodes
UniqueAcrossLeaves ==
    /\ fCalls > 0
    /\ Occurrences(textContent(fLeaves), fSearch) = 1
    /\ fResult.found
    /\ fResult.sn # fResult.en

\* C3: when the search text occurs more than once, findTextInDOM returns the
\* occurrence with the smallest start index in the flattened text, also when
\* that occurrence spans several text nodes and a later one lies in one node.
FirstOccurrenceWins ==
    (fCalls > 0 /\ Occurrences(textContent(fLeaves), fSearch) > 1) =>
        (fResult.found
         /\ RangeStart(fLeaves, fResult) = IndexOf(textContent(fLeaves), fSearch))

\* the highlights of the document that no call of onAddAnnotation has named
PendingIds == HlIds(dom) \ { added[i].id : i \in 1 .. Len(added) }

\* C4: at most one pending highlight exists in the document, the one of
\* pendingSourceRef; a selection completed in selection mode while another is
\* pending removes the marks of the other and is itself the one pending.
PendingExclusive ==
    /\ [](Cardinality(PendingIds) <= 1 /\ PendingIds \subseteq {pendingSourceRef.id})
    /\ [][ (nextId' # nextId /\ pendingSourceRef # NoSource /\ mode = "selection") =>
             /\ getDoms(dom', pendingSourceRef.id) = {}
             /\ pendingSourceRef'.id = nextId
             /\ PendingIds' = {nextId} ]_vars

\* the second selection is the only pending highlight; nothing was classified
\* and no call through the handle removed a mark
SecondSelectionPending ==
    /\ pendingSourceRef.id = 2
    /\ PendingIds = {2}
    /\ getDoms(dom, 1) = {}
    /\ added = <<>>
    /\ last = NoCall

\* C5: a selection completed while the mode is redline is committed in that
\* step as a deletion without comment text through onAddAnnotation, and in no
\* state is it the pending selection or the selection of the toolbar.
RedlineCommits ==
    /\ [][ (nextId' # nextId /\ mode = "redline") =>
             /\ Len(added') = Len(added) + 1
             /\ added'[Len(added')].id = nextId
             /\ added'[Len(added')].type = "DELETION"
             /\ added'[Len(added')].text = Undefined
             /\ pendingSourceRef'.id # nextId
             /\ toolbarState'.id # nextId ]_vars
    /\ [](\A i \in 1 .. Len(added) :
             added[i].via = "redline" =>
                 (pendingSourceRef.id # added[i].id /\ toolbarState.id # added[i].id))

\* a selection was committed in redline mode while its marks are in the document
RedlineCommitted ==
    \E i \in 1 .. Len(added) :
        /\ added[i].via = "redline"
        /\ added[i].type = "DELETION"
        /\ getDoms(dom, added[i].id) # {}

\* the indices of the entries of a log that say what
Entries(log, what) == { i \in 1 .. Len(log) : log[i].did = what }

\* C6: applySharedAnnotations skips an annotation whose id already has a marker,
\* in the highlighter's index or as a data-bind-id element: applying a batch a
\* second time changes nothing, and of the annotations of a batch that share an
\* id at most one is wrapped.
IdempotentApply ==
    \A b \in Batches :
        LET once == applySharedAnnotations(dom, b)
        IN  /\ applySharedAnnotations(once.dom, b).dom = once.dom
            /\ \A i \in Entries(once.log, "wrapped") : \A j \in 1 .. Len(b) :
                  (j # i /\ b[j].id = b[i].id) => once.log[j].did # "wrapped"
            /\ \A i \in 1 .. Len(b) :
                  AlreadyHighlighted(dom, b[i]) => once.log[i].did = "skipped"

\* a batch was applied whose annotations all had their markers, as data-bind-id
\* elements, from an earlier application
AppliedTwice ==
    /\ last.op = "applySharedAnnotations"
    /\ last.log # <<>>
    /\ Entries(last.log, "skipped") = 1 .. Len(last.log)
    /\ \A i \in 1 .. Len(last.log) :
          ManualMarks(dom, last.log[i].id) # {} /\ getDoms(dom, last.log[i].id) = {}

\* C7: applying the highlight of an annotation and later calling removeHighlight
\* with its id leaves the flattened text of the document as it was, whatever
\* was applied or removed in between.
RemovalKeepsText ==
    /\ textContent(dom) = Content(Blocks)
    /\ \A x \in SharedAnns :
          LET applied == applySharedAnnotations(dom, <<x>>).dom
          IN  /\ textContent(applied) = textContent(dom)
              /\ textContent(removeHighlight(applied, x.id)) = textContent(dom)
    /\ \A id \in RemovableIds : textContent(removeHighlight(dom, id)) = textContent(dom)

\* the highlight of a restored annotation was removed after two other operations
RemovedAfterRestore ==
    /\ last.op = "removeHighlight"
    /\ last.id \in SharedIds
    /\ last.log[1].did = "unwrapped"
    /\ ops = MaxOps

\* C8: an annotation of a batch whose text is not found is skipped with a
\* warning and the batch goes on: every annotation of the batch is handled, and
\* each one whose text occurs in the document has a marker afterwards.
BatchContinues ==
    \A b \in Batches :
        LET r    == applySharedAnnotations(dom, b)
            text == textContent(dom)
        IN  /\ Len(r.log) = Len(b)
            /\ \A i \in 1 .. Len(b) :
                  /\ r.log[i].id = b[i].id
                  /\ (IndexOf(text, b[i].originalText) # -1) =>
                        (r.log[i].did # "warned" /\ b[i].id \in (BindIds(r.dom) \cup HlIds(r.dom)))
                  /\ (IndexOf(text, b[i].originalText) = -1 /\ ~AlreadyHighlighted(dom, b[i])) =>
                        (r.log[i].did = "warned" /\ b[i].id \notin BindIds(r.dom))

\* a batch was applied whose first annotation was not found and whose second
\* was wrapped
WrappedAfterWarning ==
    /\ last.op = "applySharedAnnotations"
    /\ \E i \in Entries(last.log, "warned") : \E j \in Entries(last.log, "wrapped") :
          i < j /\ ManualMarks(dom, last.log[j].id) # {}

\* C9: a load is all or nothing: when loadFromHash returns false (no payload, or
\* a step threw), markdown, annotations, pendingSharedAnnotations and
\* isSharedSession are what they were.
AllOrNothing ==
    [][ (Len(loadLog') > Len(loadLog) /\ ~loadLog'[Len(loadLog')].result) =>
          UNCHANGED <<markdown, annotations, pendingSharedAnnotations, isSharedSession>> ]_vars

\* a load returned false after it had replaced the document and the annotations
FailedLoadReplaced ==
    /\ loadLog # <<>>
    /\ ~LastLoad.result
    /\ isSharedSession
    /\ markdown = parseShareHash(LastLoad.hash).p
    /\ markdown # "plan"

\* C10 as stated: a load that follows another merges by annotation id, so no id
\* the annotations held before it is lost.
MergedPerId ==
    [][ (sharedLoads' > sharedLoads /\ sharedLoads > 0) =>
          IdsOf(annotations) \subseteq IdsOf(annotations') ]_vars

\* C10: when a load settles with a payload, the annotations are exactly the ones
\* decoded from its link, in the link's order: the set the parent held before,
\* an earlier load's included, is replaced as a whole.
LoadReplacesAnnotations ==
    [][ sharedLoads' > sharedLoads =>
          annotations' = fromShareable(parseShareHash(loadLog'[Len(loadLog')].hash).a) ]_vars

\* two loads settled with a payload, and an id the first one brought is gone
SecondLoadDroppedAnId ==
    /\ sharedLoads = 2
    /\ Len(loadLog) = 2
    /\ LET first  == fromShareable(parseShareHash(loadLog[1].hash).a)
           second == fromShareable(parseShareHash(loadLog[2].hash).a)
       IN  /\ annotations = second
           /\ IdsOf(first) \ IdsOf(annotations) # {}

\* the call of onAddAnnotation a step made
NewCall == added'[Len(added')]

BlockIds == { Blocks[i].id : i \in 1 .. Len(Blocks) }

\* the flattened text of the element the block with the given id was rendered to
BlockText(toks, id) ==
    textContent(Children(toks, Min({ i \in Elements(toks) :
                                       toks[i].tag = "block" /\ toks[i].id = id /\ toks[i].orig })))

\* s.substring(a, b) for 0 <= a <= b: both ends are clamped to the length
Substring(s, a, b) == Slice(s, Min({a, Len(s)}), Min({b, Len(s)}))

\* C12 as stated: when an annotation that names a block is handed to
\* onAddAnnotation, originalText is the block's flattened text at
\* [startOffset, endOffset), also for a selection that is not contained in one
\* block.
OffsetsLocateText ==
    [][ (Len(added') = Len(added) + 1 /\ NewCall.blockId \in BlockIds) =>
          Substring(BlockText(dom', NewCall.blockId), NewCall.startOffset,
                    NewCall.endOffset) = NewCall.originalText ]_vars

\* a selection that starts in the paragraph and ends in the code block was
\* committed: its offsets start at the end of the paragraph's text
CrossBlockCommitted ==
    \E i \in 1 .. Len(added) :
        /\ added[i].originalText = <<"b", "a">>
        /\ added[i].blockId = Blocks[1].id
        /\ added[i].startOffset = Len(Blocks[1].content)
        /\ added[i].endOffset = Len(Blocks[1].content) + 2

\* C13 as stated: every annotation handed to onAddAnnotation names a block of
\* the document; its blockId is never empty.
ReferencesOneBlock ==
    \A i \in 1 .. Len(added) : added[i].blockId \in BlockIds

\* after clearAllHighlights the toolbar committed the selection it still held,
\* whose marks were no longer in the document: the annotation carries the empty
\* blockId and offset 0
CommittedWithoutBlock ==
    \E i \in 1 .. Len(added) :
        /\ last.op = "clearAllHighlights"
        /\ added[i].via = "toolbar"
        /\ added[i].blockId = 0
        /\ added[i].startOffset = 0
        /\ getDoms(dom, added[i].id) = {}

\* the fields of an annotation made from a selection
ManualFields == DOMAIN createAnnotationFromSource(dom, NoSource, "DELETION", Undefined, "toolbar").ann

RestoreStep ==
    /\ last'.op = "applySharedAnnotations"
    /\ ops' = ops + 1
    /\ nextId' = nextId
    /\ added' = added

RECURSIVE MarkedText(_, _)
\* the text held by the marks at the positions in marks, in document order
MarkedText(toks, marks) ==
    IF marks = {} THEN <<>>
    ELSE textContent(Children(toks, Min(marks))) \o MarkedText(toks, marks \ {Min(marks)})

\* C15: applySharedAnnotations neither loses nor duplicates content: after a
\* call, whichever of its annotations were wrapped and by whichever path
\* (surroundContents or extract, append, insert), the flattened text of the
\* document is what it was before the call, and the marks of each annotation
\* wrapped hold the text of the annotation (in two marks when a later wrap of
\* the batch cut through the first).
WrapKeepsContent ==
    [][ RestoreStep =>
          /\ textContent(dom') = textContent(dom)
          /\ \A i \in Entries(last'.log, "wrapped") :
                /\ ManualMarks(dom, last'.log[i].id) = {}
                /\ MarkedText(dom', ManualMarks(dom', last'.log[i].id)) \in
                      { x.originalText : x \in { y \in SharedAnns : y.id = last'.log[i].id } } ]_vars

\* a restored annotation ran from the paragraph into the code block: the range
\* was extracted and reinserted, and the mark holds the clones of the elements it
\* cut through
WrappedByFallback ==
    /\ last.op = "applySharedAnnotations"
    /\ \E i \in Entries(last.log, "wrapped") :
          \E m \in ManualMarks(dom, last.log[i].id) :
              /\ \E n \in Elements(dom) : n > m /\ n < EndOf(dom, m) /\ ~dom[n].orig
              /\ textContent(Children(dom, m)) = <<"b", "a">>

\* other offsets and anchor hints an annotation may arrive with
Hints == { [startOffset |-> 0, endOffset |-> 1, startMeta |-> Undefined, endMeta |-> "p[0]"],
           [startOffset |-> 1, endOffset |-> 3, startMeta |-> "p[0]", endMeta |-> "code[0]"],
           [startOffset |-> 3, endOffset |-> 9, startMeta |-> "code[0]", endMeta |-> Undefined] }

\* the batch with every annotation's offsets and hints replaced
Rehinted(batch, h) ==
    [i \in 1 .. Len(batch) |->
        [batch[i] EXCEPT !.startOffset = h.startOffset, !.endOffset = h.endOffset,
                         !.startMeta = h.startMeta, !.endMeta = h.endMeta]]

\* C16: restoration does not read startOffset, endOffset, startMeta or endMeta:
\* whenever a batch is applied, the same batch with other offsets and hints,
\* applied to the same document, gives the same document and handles every
\* annotation the same way.
HintsIgnored ==
    [][ RestoreStep =>
          \A b \in Batches :
              ( /\ Len(b) = Len(last'.log)
                /\ \A i \in 1 .. Len(b) : b[i].id = last'.log[i].id
                /\ applySharedAnnotations(dom, b).dom = dom' ) =>
                  \A h \in Hints :
                      applySharedAnnotations(dom, Rehinted(b, h)) =
                          [dom |-> dom', log |-> last'.log] ]_vars

\* an annotation was restored whose stored offsets point at other characters of
\* the document than its text
RestoredAgainstOffsets ==
    /\ last.op = "applySharedAnnotations"
    /\ \E i \in Entries(last.log, "wrapped") : \E x \in SharedAnns :
          /\ x.id = last.log[i].id
          /\ MarkedText(dom, ManualMarks(dom, x.id)) = x.originalText
          /\ Substring(textContent(dom), x.startOffset, x.endOffset) # x.originalText

\* the ids of the selections committed so far
CommittedIds == { added[i].id : i \in 1 .. Len(added) }

\* C17 as stated: committed and discarded are terminal.  The toolbar commits only
\* the selection that is pending, so a selection that was superseded or closed
\* is never committed afterwards; and neither the pending-highlight cleanup nor
\* the toolbar's close ever holds a selection that was committed.
LifecycleTerminal ==
    /\ [][ (Len(added') = Len(added) + 1 /\ NewCall.via = "toolbar") =>
              /\ pendingSourceRef # NoSource
              /\ NewCall.id = pendingSourceRef.id ]_vars
    /\ [](pendingSourceRef.id \notin CommittedIds /\ toolbarState.id \notin CommittedIds)

\* a selection that a later redline selection had superseded, its marks removed,
\* was committed from the toolbar after it
DiscardedThenCommitted ==
    \E i \in 1 .. Len(added) : \E j \in 1 .. Len(added) :
        /\ i < j
        /\ added[i].via = "redline"
        /\ added[j].via = "toolbar"
        /\ added[j].id < added[i].id
        /\ getDoms(dom, added[j].id) = {}


\* the relay has ended: the server exited after a decision and the hook
\* script, when there is one, exited after it
RelayEnded ==
    /\ rDecision.made
    /\ rStatus.exited
    /\ rLaunch.by = "hook" => rPc = "done"

OnStderr(text) == \E i \in 1 .. Len(rStderr) : rStderr[i] = text

\* C18: once the relay has ended its exit status tells the decision: the
\* server's status is 0 when the plan was approved and 2 when it was denied, a
\* denial's feedback is on stderr, and the hook script exits with the server's
\* status.
ExitStatusTellsDecision ==
    RelayEnded =>
        /\ rDecision.approved => rStatus = Exited(0)
        /\ ~rDecision.approved => rStatus = Exited(2) /\ OnStderr(rDecision.feedback)
        /\ rLaunch.by = "hook" => rHookStatus = rStatus

\* C18 (witness): the hook launched the server, the user denied the plan with
\* feedback, and both processes exited with status 0; the feedback is in the
\* JSON on stdout and not on stderr
DeniedExitsZero ==
    /\ RelayEnded
    /\ rLaunch.by = "hook"
    /\ ~rDecision.approved
    /\ rDecision.feedback = "fix it"
    /\ rStatus = Exited(0)
    /\ rHookStatus = Exited(0)
    /\ rStdout = << [behavior |-> "deny", message |-> "fix it"] >>
    /\ ~OnStderr("fix it")


\* calls i < j of getIdentity with no saveIdentity or regenerateIdentity
\* between them
NoSaveBetween(i, j) ==
    /\ i < j
    /\ iLog[i].fn = "getIdentity"
    /\ iLog[j].fn = "getIdentity"
    /\ \A k \in (i + 1) .. (j - 1) : iLog[k].fn \notin {"saveIdentity", "regenerateIdentity"}

\* C19: any two calls of getIdentity with no saveIdentity or regenerateIdentity
\* between them return the same string, however localStorage behaves.
IdentityStable ==
    \A i, j \in 1 .. Len(iLog) : NoSaveBetween(i, j) => iLog[i].ret = iLog[j].ret

\* C19 (witness): localStorage throws on every access, and two calls of
\* getIdentity that follow one another returned different identities
IdentityChangedWithoutStorage ==
    /\ iMode = "throws"
    /\ \E i \in 1 .. (Len(iLog) - 1) :
           /\ NoSaveBetween(i, i + 1)
           /\ iLog[i].ret # iLog[i + 1].ret
           /\ iLog[i].ret \in Identities
           /\ iLog[i + 1].ret \in Identities


\* the step settles the write w as a success: the clipboard holds its text and
\* nothing was logged
Succeeded(w) ==
    /\ w \in cWrites
    /\ w \notin cWrites'
    /\ cClipboard' = w.text
    /\ cErrors' = cErrors

\* C20: a copied indicator turns true only in the step in which a write of its
\* own component succeeds; a write that fails is logged and changes neither
\* indicator, nor the timers, nor the clipboard; and no step of copying changes
\* the share URL, the diff output, the document or the annotations.
FailedCopyOnlySkipsIndicator ==
    [][ /\ (cCopied' /\ ~cCopied) => \E w \in cWrites : w.who = "modal" /\ Succeeded(w)
        /\ (cCodeCopied' /\ ~cCodeCopied) => \E w \in cWrites : w.who = "code" /\ Succeeded(w)
        /\ cErrors' # cErrors =>
               /\ cCopied' = cCopied
               /\ cCodeCopied' = cCodeCopied
               /\ cTimers' = cTimers
               /\ cClipboard' = cClipboard
        /\ cCopies' # cCopies \/ cWrites' # cWrites =>
               /\ shareUrl' = shareUrl
               /\ shareUrlSize' = shareUrlSize
               /\ cDiff' = cDiff
               /\ markdown' = markdown
               /\ annotations' = annotations
               /\ dom' = dom
               /\ added' = added
      ]_vars

\* C20 (witness): the first copy of the diff failed and left the indicator off
\* and the clipboard empty of it; the second succeeded and turned it on
CopyFailedThenSucceeded ==
    /\ cCopies = 2
    /\ cErrors = 1
    /\ cWrites = {}
    /\ cTimers = { Timer(2, "modal") }
    /\ cCopied
    /\ ~cCodeCopied
    /\ cClipboard = DiffClip(cDiff)
    /\ shareUrl = generateShareUrl(markdown, annotations)


\* C21: in every state the URL and the size shown are both empty, or the URL
\* is, whole, what generateShareUrl returned for some document and annotation
\* set, and the size is formatUrlSize of that URL.
SizeDisclosureKeepsTransport ==
    \/ shareUrl = NoUrl /\ shareUrlSize = NoSize
    \/ /\ \E l \in LinksTo(shareUrl.hash) : shareUrl = generateShareUrl(l.d, l.A)
       /\ shareUrlSize = formatUrlSize(shareUrl)

\* C21 (witness): after a shared load and an edit every generation has settled:
\* the URL of the annotated document is shown, whole, with its size in bytes
SizeShownWithUrl ==
    /\ gens = {}
    /\ Len(annotations) > 0
    /\ shareUrl = generateShareUrl(markdown, annotations)
    /\ shareUrlSize = [n |-> Len(shareUrl.base) + shareUrl.hash.len, unit |-> "B"]
    /\ isSharedSession
    /\ edits > 0


\* C22: isLoadingShared is true exactly in the states in which a call of
\* loadFromHash, started at mount or by a hash change, has not settled.
LoadingFlagTracksLoads == isLoadingShared <=> loads # {}

\* C22 (witness): the load of the mount has settled and a load that a hash
\* change started is under way with isLoadingShared false
HashLoadUnflagged ==
    /\ ~isLoadingShared
    /\ Len(loadLog) > 0
    /\ \E l \in loads : ~l.mount /\ l.hash = hash /\ parseShareHash(l.hash).ok


\* C23: once every call of refreshShareUrl has settled, a URL that is shown is
\* the URL of the current markdown and annotations, in whatever order the
\* calls settled.
ShareUrlCurrent ==
    gens = {} /\ shareUrl # NoUrl => shareUrl = generateShareUrl(markdown, annotations)

\* C23 (witness): nothing is in flight, the parent holds an annotation, and the
\* URL shown is the one generated for the document before it had any
StaleUrlShown ==
    /\ gens = {}
    /\ loads = {}
    /\ markdown = "plan"
    /\ Len(annotations) > 0
    /\ shareUrl = generateShareUrl("plan", <<>>)
    /\ shareUrlSize = formatUrlSize(shareUrl)


\* the calls that return what generateIdentity made: regenerateIdentity always,
\* getIdentity when nothing stored was returned
Generated(i) ==
    \/ iLog[i].fn = "regenerateIdentity"
    \/ iLog[i].fn = "getIdentity" /\ iMode = "throws"

\* C24: every identity generateIdentity returns is the adjective, the literal
\* "tater" and the noun, in that order, joined by hyphens.
TaterInTheMiddle ==
    \A i \in 1 .. Len(iLog) :
        Generated(i) =>
            \E x \in Adjectives, y \in Nouns : iLog[i].ret = <<x, "-", "tater", "-", y>>

\* C24 (witness): regenerateIdentity returned a generated identity that ends
\* in "tater", the noun in the middle
TaterAtTheEnd ==
    \E i \in 1 .. Len(iLog) :
        /\ iLog[i].fn = "regenerateIdentity"
        /\ iLog[i].ret = <<"swift", "-", "falcon", "-", "tater">>


\* the visual markers of the tree: highlighter marks, elements with
\* data-bind-id, and whatever carries a highlight class
Markers(toks) ==
    { i \in Elements(toks) :
        \/ IsHl(toks[i])
        \/ IsBind(toks[i])
        \/ toks[i].cls \cap {HlClass, "deletion", "comment"} # {} }

\* the step is a call of clearAllHighlights through the ViewerHandle
ClearStep ==
    /\ last'.op = "clearAllHighlights"
    /\ ops' = ops + 1
    /\ nextId' = nextId
    /\ added' = added
    /\ last'.log = <<>>

\* C25: after a call of clearAllHighlights the document holds no marker of any
\* kind, nested or not, and its flattened text is the text of the blocks as
\* they were rendered.
ClearLeavesNoMarker ==
    [][ ClearStep =>
          /\ Markers(dom') = {}
          /\ textContent(dom') = Content(Blocks)
          /\ textContent(dom') = textContent(dom)
      ]_vars

\* C25 (witness): the last call cleared a document that had held marks, one of
\* them wrapped by the fallback around clones of the elements it cut through:
\* no marker is left, the clones and the split text nodes are
ClearedNestedMarks ==
    /\ last.op = "clearAllHighlights"
    /\ Markers(dom) = {}
    /\ \E n \in Elements(dom) : ~dom[n].orig
    /\ added # <<>>
    /\ textContent(dom) = Content(Blocks)


\* the step is a call of removeHighlight through the ViewerHandle
RemoveStep ==
    /\ last'.op = "removeHighlight"
    /\ ops' = ops + 1
    /\ nextId' = nextId
    /\ added' = added

\* C26: after a call of removeHighlight(id) the document holds no marker bound
\* to id: no highlighter mark of id and no element with data-bind-id = id.
RemoveLeavesNoMarker ==
    [][ RemoveStep =>
          /\ getDoms(dom', last'.id) = {}
          /\ ManualMarks(dom', last'.id) = {}
      ]_vars

\* C26 (witness): removeHighlight unwrapped a mark of the id it was called
\* with, and an element with that data-bind-id, a clone the fallback made inside
\* a later annotation's mark, is still in the document
CloneOutlivesRemoval ==
    /\ last.op = "removeHighlight"
    /\ last.log[1].did = "unwrapped"
    /\ \E m \in ManualMarks(dom, last.id) :
          /\ ~dom[m].orig
          /\ \E h \in 1 .. Len(Ancestors(dom, m)) :
                LET a == dom[Ancestors(dom, m)[h]] IN IsBind(a) /\ a.id # last.id


\* C27: whenever the toolbar holds a selection, that selection is the one in
\* the pending slot and its mark is in the document.
ToolbarBoundToPending ==
    toolbarState # NoSource =>
        /\ pendingSourceRef = toolbarState
        /\ getDoms(dom, toolbarState.id) # {}

\* C27 (witness): after a call of clearAllHighlights the toolbar still holds
\* the selection, which is still in the pending slot, and no mark of it is left
ToolbarOutlivesClear ==
    /\ last.op = "clearAllHighlights"
    /\ toolbarState # NoSource
    /\ pendingSourceRef = toolbarState
    /\ getDoms(dom, toolbarState.id) = {}
    /\ Markers(dom) = {}


\* the type-specific classes an element carries
VisualClasses(t) == t.cls \cap {"deletion", "comment"}

\* the one class the claim names for a type
ClassFor(type) == IF type = "DELETION" THEN {"deletion"} ELSE {"comment"}

\* the markers made for the call of onAddAnnotation x: highlighter marks for a
\* selection, the manual mark for a code block
MarkersOf(toks, x) ==
    IF x.via = "codeblock" THEN ManualMarks(toks, x.id) ELSE getDoms(toks, x.id)

\* the committed annotations a marker of x may belong to: those of its id made
\* the same way
SameMarker(x) ==
    { added[j] : j \in { k \in 1 .. Len(added) :
                           /\ added[k].id = x.id
                           /\ (added[k].via = "codeblock") <=> (x.via = "codeblock") } }

\* C28: every committed or restored marker carries exactly the visual class of
\* its annotation's type: at the commit of a selection or a code block the new
\* marker has the one class of the chosen type, a restore gives each mark the
\* one class of the restored annotation's type, the markers of committed
\* annotations keep exactly that class in every state, and the effect on the
\* annotations prop adds nothing to them.
MarkerCarriesTypeClass ==
    /\ [][ Len(added') = Len(added) + 1 =>
             /\ MarkersOf(dom', NewCall) # {} =>
                   \E m \in MarkersOf(dom', NewCall) :
                       VisualClasses(dom'[m]) = ClassFor(NewCall.type)
             /\ NewCall.via # "codeblock" =>
                   \A m \in MarkersOf(dom', NewCall) :
                       VisualClasses(dom'[m]) = ClassFor(NewCall.type)
         ]_vars
    /\ [][ RestoreStep =>
             \A i \in Entries(last'.log, "wrapped") :
                 \A m \in ManualMarks(dom', last'.log[i].id) :
                     \E x \in SharedAnns :
                         /\ x.id = last'.log[i].id
                         /\ x.originalText = MarkedText(dom', ManualMarks(dom', x.id))
                         /\ VisualClasses(dom'[m]) = ClassFor(x.type)
         ]_vars
    /\ [](\A i \in 1 .. Len(added) :
              \A m \in MarkersOf(dom, added[i]) :
                  \E x \in SameMarker(added[i]) : VisualClasses(dom[m]) = ClassFor(x.type))
    /\ [](AnnotationsEffect(dom, added) = dom)

\* C28 (witness): a selection committed as a comment, a code block committed
\* as a deletion and a restored annotation are marked at once, each marker with
\* the class of its own type
ThreeKindsMarked ==
    /\ \E i \in 1 .. Len(added) :
          /\ added[i].via = "toolbar" /\ added[i].type = "COMMENT"
          /\ \E m \in getDoms(dom, added[i].id) : VisualClasses(dom[m]) = {"comment"}
    /\ \E i \in 1 .. Len(added) :
          /\ added[i].via = "codeblock" /\ added[i].type = "DELETION"
          /\ \E m \in ManualMarks(dom, added[i].id) : VisualClasses(dom[m]) = {"deletion"}
    /\ \E id \in SharedIds : \E m \in ManualMarks(dom, id) : VisualClasses(dom[m]) # {}


\* the blocks a mark lies in: the ids of the block elements among its ancestors
BlocksAround(toks, m) ==
    { toks[Ancestors(toks, m)[h]].id :
        h \in { g \in 1 .. Len(Ancestors(toks, m)) :
                  toks[Ancestors(toks, m)[g]].tag = "block" /\ toks[Ancestors(toks, m)[g]].orig } }

\* the annotations of the model that a restore may have wrapped in the marks of id
WrappedAs(toks, id) ==
    { x \in SharedAnns : x.id = id /\ x.originalText = MarkedText(toks, ManualMarks(toks, id)) }

\* C29: every mark applySharedAnnotations makes for an annotation lies inside
\* the block the annotation's blockId names.
RestoredInItsBlock ==
    [][ RestoreStep =>
          \A i \in Entries(last'.log, "wrapped") :
              \A x \in WrappedAs(dom', last'.log[i].id) :
                  \A m \in ManualMarks(dom', x.id) : x.blockId \in BlocksAround(dom', m)
      ]_vars

\* C29 (witness): the annotation made on the "a" of the code block (block 2)
\* was restored, and its mark lies in the paragraph (block 1), around the first
\* "a" of the document
RestoredInAnotherBlock ==
    /\ last.op = "applySharedAnnotations"
    /\ \E i \in Entries(last.log, "wrapped") :
          /\ last.log[i].id = 7
          /\ \E x \in WrappedAs(dom, 7) :
                /\ x.blockId = 2
                /\ \A m \in ManualMarks(dom, 7) : BlocksAround(dom, m) = {1}


\* C30: no two annotations handed to onAddAnnotation have the same id.
AnnotationIdsUnique ==
    \A i, j \in 1 .. Len(added) : i # j => added[i].id # added[j].id

\* C30 (witness): two code block annotations were made at the same reading of
\* Date.now(): both calls of onAddAnnotation carry the same id, and the code
\* holds two marks with that data-bind-id, one inside the other
CodeBlockIdsCollide ==
    \E i, j \in 1 .. Len(added) :
        /\ i < j
        /\ added[i].via = "codeblock"
        /\ added[j].via = "codeblock"
        /\ added[i].id = added[j].id
        /\ added[i].type # added[j].type
        /\ Cardinality(ManualMarks(dom, added[i].id)) = 2


\* C31: when a load that a hash change started settles before the load of the
\* mount it overlaps, then in the step in which the load of the mount settles
\* the markdown, the annotations and the pending shared annotations become
\* those of the load that was started last, both payloads having decoded.
LastStartedLoadWins ==
    [][\A l \in loads :
          /\ loads' = {}
          /\ l.mount
          /\ parseShareHash(l.hash).ok
          /\ Len(loadLog) = 1
          /\ parseShareHash(loadLog[1].hash).ok
          => LET latest == Commit(parseShareHash(loadLog[1].hash))
             IN  /\ markdown' = latest.markdown
                 /\ annotations' = latest.annotations
                 /\ pendingSharedAnnotations' = Some(latest.annotations)]_vars

\* C31 (witness): the link opened by a hash change was decoded first, the link
\* of the mount second, and the session holds the document of the mount's link
EarlierLoadWon ==
    /\ loads = {}
    /\ Len(loadLog) = 2
    /\ loadLog[1].hash = LinkB
    /\ loadLog[2].hash = LinkA
    /\ markdown = "other"
    /\ annotations = fromShareable(parseShareHash(LinkA).a)
    /\ pendingSharedAnnotations = Some(annotations)


\* the requests that decide: a POST to /api/approve or /api/deny
Deciding(req) ==
    req.method = "POST" /\ req.path \in {"/api/approve", "/api/deny"}

\* the deciding requests among those received, in the order they arrived
DecidingReceived == SelectSeq(rRequests, LAMBDA r : Deciding(r.req))

\* the request whose handler runs through resolveDecision in this step: the
\* one that arrives, unless it reads its body first, or the one whose body
\* has just been read
ResolvesNow(i) ==
    \/ /\ Len(rRequests') = Len(rRequests) + 1
       /\ i = Len(rRequests')
       /\ ~rRequests'[i].reading
    \/ /\ Len(rRequests') = Len(rRequests)
       /\ i \in 1 .. Len(rRequests)
       /\ rRequests[i].reading
       /\ ~rRequests'[i].reading

\* what the server has written to stdout is the one decision it holds
OneDecisionEmitted ==
    /\ Len(rStdout) <= 1
    /\ rStdout # <<>> =>
          /\ rDecision.made
          /\ rStdout = DecisionOutput(rDecision).stdout
          /\ DecidingReceived # <<>>
    /\ rStatus = Exited(0) => Len(rStdout) = 1
    /\ rDecision.made => DecidingReceived # <<>>

\* C32 (as stated): the decision the server emits is that of the first POST
\* to /api/approve or /api/deny it received.
FirstReceivedDecides ==
    rStdout # <<>> =>
        rStdout = DecisionOutput(Resolved(NoDecision, DecidingReceived[1].req)).stdout

\* C32 (amended): the server emits exactly one decision, only after it
\* received a POST to /api/approve or /api/deny; the decision is made in the
\* step in which the handler of such a request calls resolveDecision (an
\* approve when it arrives, a deny when its body has been read) and is that
\* request's; it never changes afterwards, and a request with another method
\* or path never makes it.
FirstResolvedDecides ==
    /\ []OneDecisionEmitted
    /\ [][/\ rDecision.made => rDecision' = rDecision
          /\ ~rDecision.made /\ rDecision'.made =>
                \E i \in 1 .. Len(rRequests') :
                    /\ ResolvesNow(i)
                    /\ Deciding(rRequests'[i].req)
                    /\ rDecision' = Resolved(NoDecision, rRequests'[i].req)]_vars

\* C32 (witness): a deny with feedback was decided, an approve handled after
\* it, and the server wrote the deny
LaterApproveIgnored ==
    /\ rStatus = Exited(0)
    /\ Len(rRequests) >= 2
    /\ rRequests[1] = Received([path |-> "/api/deny", method |-> "POST",
                                body |-> "fix it", malformed |-> FALSE], FALSE)
    /\ rRequests[2].req.path = "/api/approve" /\ rRequests[2].req.method = "POST"
    /\ rStdout = << [behavior |-> "deny", message |-> "fix it"] >>


\* a call of loadFromHash settles in this step; its entry is the last of loadLog'
SettleStep == Len(loadLog') = Len(loadLog) + 1

\* C33: a load that returns true leaves no fragment, so that a load started
\* by a mount from then on decodes nothing, and leaves what it decoded as the
\* markdown and the annotations; a load that returns false leaves the
\* fragment as it was; and a hash change to an empty fragment starts no load.
SuccessfulLoadClearsHash ==
    [][/\ SettleStep /\ loadLog'[Len(loadLog')].result =>
             /\ hash' = NoHash
             /\ ~parseShareHash(hash').ok
             /\ LET loaded == Commit(parseShareHash(loadLog'[Len(loadLog')].hash))
                IN  markdown' = loaded.markdown /\ annotations' = loaded.annotations
       /\ SettleStep /\ ~loadLog'[Len(loadLog')].result => hash' = hash
       /\ ~SettleStep /\ hash' # hash /\ hash'.len <= 1 =>
             loads' = loads /\ started' = started]_vars

\* C33 (witness): the link of the mount was loaded and its fragment cleared,
\* then a malformed link was opened and its load failed: the malformed
\* fragment is still in the address bar and the first link's document in memory
LoadedThenFailed ==
    /\ loads = {}
    /\ Len(loadLog) = 2
    /\ loadLog[1] = [hash |-> LinkA, result |-> TRUE]
    /\ loadLog[2] = [hash |-> HashOf(Malformed), result |-> FALSE]
    /\ hash = HashOf(Malformed)
    /\ markdown = "other"
    /\ isSharedSession


\* the calls of loadFromHash that returned true so far
ReturnedTrue == { i \in 1 .. Len(loadLog) : loadLog[i].result }

\* C34: isSharedSession is true exactly when a load from the URL hash has
\* succeeded in this session, and onSharedLoad has been called once for each
\* load that succeeded and for no other.
SharedSessionIffLoaded ==
    /\ isSharedSession <=> ReturnedTrue # {}
    /\ sharedLoads = Cardinality(ReturnedTrue)

\* C34 (witness): the only load of the session returned false, the session is
\* flagged as shared and onSharedLoad has been called
SharedWithoutSuccess ==
    /\ loads = {}
    /\ Len(loadLog) = 1
    /\ ~loadLog[1].result
    /\ isSharedSession
    /\ sharedLoads = 1


\* C35: after mount isLoadingShared becomes false, and stays false, once the
\* load of the mount settles, whether it installed a payload, found none in
\* the hash or failed to decode one: the step in which that load settles
\* clears the flag, and the load does settle.
LoadingEnds ==
    /\ <>[](~isLoadingShared)
    /\ [][\A l \in loads : l.mount /\ l \notin loads' => ~isLoadingShared']_vars

\* C35 (witness): the page was opened with a link that does not decode, its
\* load was the only one and failed, and isLoadingShared is false
LoadingEndedAfterFailure ==
    /\ ~isLoadingShared
    /\ loads = {}
    /\ started = 1
    /\ loadLog = << [hash |-> HashOf(Malformed), result |-> FALSE] >>
    /\ ~isSharedSession


\* the markers bound to id: the highlighter's marks of id and the elements
\* with data-bind-id = id
MarkersBoundTo(toks, id) == getDoms(toks, id) \cup ManualMarks(toks, id)

\* what the document shows of the markers of every annotation but id: for each
\* its kind, its id, its classes, the text it covers and where that text starts
OtherMarkers(toks, id) ==
    { [ tag |-> toks[m].tag, id |-> toks[m].id, cls |-> toks[m].cls,
        text |-> textContent(Children(toks, m)), start |-> CharsBefore(toks, m) ] :
      m \in Markers(toks) \ MarkersBoundTo(toks, id) }

\* C36: a call of removeHighlight(id) changes nothing but the markers of id:
\* the markers of every other annotation, the pending selection with the
\* toolbar, and the flattened text of the document are what they were, and
\* when no marker is bound to id the document is left as it is.
RemoveTouchesOnlyItsMarker ==
    [][ RemoveStep =>
          /\ OtherMarkers(dom', last'.id) = OtherMarkers(dom, last'.id)
          /\ pendingSourceRef' = pendingSourceRef
          /\ toolbarState' = toolbarState
          /\ textContent(dom') = textContent(dom)
          /\ MarkersBoundTo(dom, last'.id) = {} => dom' = dom
      ]_vars

\* C36 (witness): removeHighlight unwrapped the marker of its id while the
\* manual mark of another annotation and the highlighter's mark of a pending
\* selection were in the document: both are still there
RemovedBesideOthers ==
    /\ last.op = "removeHighlight"
    /\ last.log[1].did = "unwrapped"
    /\ MarkersBoundTo(dom, last.id) = {}
    /\ pendingSourceRef # NoSource
    /\ pendingSourceRef.id # last.id
    /\ getDoms(dom, pendingSourceRef.id) # {}
    /\ \E m \in Markers(dom) : IsBind(dom[m]) /\ dom[m].id # last.id

=============================================================================
